---- MODULE Spec2Model ----
(***************************************************************************)
(* A model of twittuh's timeline parser (parse.go, html.go, util.go).      *)
(*                                                                         *)
(* Strings.  A Go string is modelled as a sequence of lexemes: each        *)
(* character the code inspects on its own ("@", "\n", " ", ":", "/", "?",  *)
(* "#", "=", "-", "+", a digit) is a lexeme of its own, and every other    *)
(* lexeme is a run of characters the code never looks into.  The empty     *)
(* string is <<>>.  An element's tag (Node.Data of an element) and an      *)
(* attribute's key are plain TLA+ strings.                                 *)
(*                                                                         *)
(* DOM.  The golang.org/x/net/html tree is modelled at the level of its    *)
(* pointers: the heap is a sequence of Node records, a *html.Node is an    *)
(* index into it and nil is 0.                                             *)
(***************************************************************************)
EXTENDS Integers, Sequences, FiniteSets, TLC

VARIABLES
  page,       \* the input: the tweets of the timeline page handed to parseTimeline
  heap,       \* the DOM: every html.Node allocated so far
  pc,         \* position in parseTimeline / parseTweet
  opts,       \* parseOptions
  prof,       \* profile being returned
  nodes,      \* the tweet divs found by parseTimeline's findNodes
  idx,        \* loop index i of parseTimeline
  tw,         \* the tweet under construction in parseTweet
  loc,        \* parseTweet's locals: main, head, body, text, embed, content
  tweets,     \* parseTimeline's accumulator
  ret,        \* what parseTimeline returned: [tweets, err], or "none"
  trail,      \* the rewriting steps run on the current tweet, in order
  call,       \* the arguments of the library call under study, where one is
  layout,     \* the input: the shape of the page's profile region
  ft,         \* the fetcher, with the cache directory and the web behind it
  tl          \* getTimeline's locals: url, seenIDs, latestID

vars == <<page, heap, pc, opts, prof, nodes, idx, tw, loc, tweets, ret, trail, call,
          layout, ft, tl>>

nil == 0

-----------------------------------------------------------------------------
(* Strings as lexeme sequences                                             *)

\* strings.HasPrefix
HasPrefix(s, p) == Len(s) >= Len(p) /\ SubSeq(s, 1, Len(p)) = p

\* strings.Contains
Contains(s, sub) ==
  \E i \in 0..(Len(s) - Len(sub)) : SubSeq(s, i + 1, i + Len(sub)) = sub

\* strings.Index of a one-lexeme separator: 0 when absent, else the 1-based place
Index(s, c) ==
  IF \E i \in 1..Len(s) : s[i] = c
    THEN CHOOSE i \in 1..Len(s) : s[i] = c /\ \A j \in 1..(i - 1) : s[j] # c
    ELSE 0

\* strings.Split(s, sep) for a one-lexeme separator: always at least one part
RECURSIVE Split(_, _)
Split(s, sep) ==
  LET i == Index(s, sep)
  IN  IF i = 0 THEN <<s>>
      ELSE <<SubSeq(s, 1, i - 1)>> \o Split(SubSeq(s, i + 1, Len(s)), sep)

\* strings.SplitN(s, sep, 2)
SplitN2(s, sep) ==
  LET i == Index(s, sep)
  IN  IF i = 0 THEN <<s>>
      ELSE <<SubSeq(s, 1, i - 1), SubSeq(s, i + 1, Len(s))>>

\* strings.Fields: the maximal runs of lexemes that are not white space
\* (unicode.IsSpace)
RECURSIVE Fields(_)
Fields(s) ==
  IF s = <<>> THEN <<>>
  ELSE IF s[1] \in {" ", "\n", "\t", "\r"} THEN Fields(Tail(s))
  ELSE LET rest == Fields(Tail(s))
       IN  IF Len(s) > 1 /\ s[2] \notin {" ", "\n", "\t", "\r"}
             THEN <<(<<s[1]>> \o rest[1])>> \o Tail(rest)
             ELSE <<(<<s[1]>>)>> \o rest

\* unicode.IsSpace of a lexeme
IsSpace(c) == c \in {" ", "\n", "\t", "\r"}

\* strings.TrimSpace
RECURSIVE TrimSpace(_)
TrimSpace(s) ==
  IF s = <<>> THEN s
  ELSE IF IsSpace(s[1]) THEN TrimSpace(Tail(s))
  ELSE IF IsSpace(s[Len(s)]) THEN TrimSpace(SubSeq(s, 1, Len(s) - 1))
  ELSE s

\* spaceRegexp.ReplaceAllString(s, " "): every run of white space becomes one blank
RECURSIVE ReplaceSpaces(_)
ReplaceSpaces(s) ==
  IF s = <<>> THEN <<>>
  ELSE IF IsSpace(s[1])
    THEN (IF Len(s) > 1 /\ IsSpace(s[2]) THEN <<>> ELSE <<" ">>) \o ReplaceSpaces(Tail(s))
  ELSE <<s[1]>> \o ReplaceSpaces(Tail(s))

\* cleanText
cleanText(s) == ReplaceSpaces(TrimSpace(s))

\* bareUser: strips off a leading '@' if present
bareUser(u) == IF Len(u) > 1 /\ u[1] = "@" THEN Tail(u) ELSE u

-----------------------------------------------------------------------------
(* golang.org/x/net/html Node and its three mutators                       *)

ElementNode  == "Element"
TextNode     == "Text"
DocumentNode == "Document"

\* &html.Node{Type: t, Data: d, Attr: a}
NewNode(t, d, a) ==
  [Type |-> t, Data |-> d, Attr |-> a, Parent |-> nil, FirstChild |-> nil,
   LastChild |-> nil, PrevSibling |-> nil, NextSibling |-> nil]

\* A run-time panic (nil dereference, or html's own panic) ends the goroutine:
\* the heap becomes Panic and every later operation leaves it so.
Panic == << [Type |-> "Panic"] >>

IsPanic(h) == h[1].Type = "Panic"

\* Allocation: the new node's pointer is Len(h) + 1
Alloc(h, node) == IF IsPanic(h) THEN h ELSE Append(h, node)

NewPtr(h) == Len(h) + 1

\* (*Node).AppendChild
AppendChild(h, n, c) ==
  IF IsPanic(h) \/ n = nil \/ c = nil THEN Panic
  ELSE IF h[c].Parent # nil \/ h[c].PrevSibling # nil \/ h[c].NextSibling # nil
    THEN Panic
  ELSE LET last == h[n].LastChild
           h1 == IF last # nil
                   THEN [h EXCEPT ![last].NextSibling = c]
                   ELSE [h EXCEPT ![n].FirstChild = c]
       IN  [h1 EXCEPT ![n].LastChild = c, ![c].Parent = n, ![c].PrevSibling = last]

\* (*Node).RemoveChild
RemoveChild(h, n, c) ==
  IF IsPanic(h) \/ n = nil \/ c = nil THEN Panic
  ELSE IF h[c].Parent # n THEN Panic
  ELSE LET nx == h[c].NextSibling
           pv == h[c].PrevSibling
           h1 == IF h[n].FirstChild = c THEN [h EXCEPT ![n].FirstChild = nx] ELSE h
           h2 == IF nx # nil THEN [h1 EXCEPT ![nx].PrevSibling = pv] ELSE h1
           h3 == IF h2[n].LastChild = c THEN [h2 EXCEPT ![n].LastChild = pv] ELSE h2
           h4 == IF pv # nil THEN [h3 EXCEPT ![pv].NextSibling = nx] ELSE h3
       IN  [h4 EXCEPT ![c].Parent = nil, ![c].PrevSibling = nil, ![c].NextSibling = nil]

\* (*Node).InsertBefore
InsertBefore(h, n, newChild, oldChild) ==
  IF IsPanic(h) \/ n = nil \/ newChild = nil THEN Panic
  ELSE IF h[newChild].Parent # nil \/ h[newChild].PrevSibling # nil
          \/ h[newChild].NextSibling # nil
    THEN Panic
  ELSE LET prev == IF oldChild # nil THEN h[oldChild].PrevSibling ELSE h[n].LastChild
           next == oldChild
           h1 == IF prev # nil
                   THEN [h EXCEPT ![prev].NextSibling = newChild]
                   ELSE [h EXCEPT ![n].FirstChild = newChild]
           h2 == IF next # nil
                   THEN [h1 EXCEPT ![next].PrevSibling = newChild]
                   ELSE [h1 EXCEPT ![n].LastChild = newChild]
       IN  [h2 EXCEPT ![newChild].Parent = n, ![newChild].PrevSibling = prev,
                      ![newChild].NextSibling = next]

\* for c := n.FirstChild; c != nil; c = c.NextSibling { children = append(children, c) }
RECURSIVE SiblingsFrom(_, _)
SiblingsFrom(h, c) ==
  IF c = nil THEN <<>> ELSE <<c>> \o SiblingsFrom(h, h[c].NextSibling)

Children(h, n) == SiblingsFrom(h, h[n].FirstChild)

-----------------------------------------------------------------------------
(* html.go                                                                 *)

\* isElement
isElement(h, n, tag) == n # nil /\ h[n].Type = ElementNode /\ h[n].Data = tag

\* isText
isText(h, n) == n # nil /\ h[n].Type = TextNode

\* getAttr: the first occurrence of the named attribute, "" when absent
RECURSIVE AttrVal(_, _)
AttrVal(attrs, key) ==
  IF attrs = <<>> THEN <<>>
  ELSE IF attrs[1].Key = key THEN attrs[1].Val
  ELSE AttrVal(Tail(attrs), key)

getAttr(h, n, attr) == AttrVal(h[n].Attr, attr)

\* hasClass
hasClass(h, n, class) ==
  LET fs == Fields(getAttr(h, n, "class"))
  IN  \E i \in 1..Len(fs) : fs[i] = class

\* one expression of matchFunc: "name", "name=val" or "class=val"
MatchExpr(h, n, expr) ==
  LET parts == SplitN2(expr, "=")
  IN  IF Len(parts) = 1 THEN \E i \in 1..Len(h[n].Attr) : h[n].Attr[i].Key = parts[1][1]
      ELSE IF parts[1] = <<"class">> THEN hasClass(h, n, parts[2])
      ELSE getAttr(h, n, parts[1][1]) = parts[2]

\* matchFunc(tag, exprs...)
matchFunc(h, n, tag, exprs) ==
  /\ (tag # "" => isElement(h, n, tag))
  /\ \A i \in 1..Len(exprs) : MatchExpr(h, n, exprs[i])

-----------------------------------------------------------------------------
(* The predicates parse.go hands to findNodes and findFirstNode, as data:   *)
(* Match(h, n, f) is the call f(n).                                        *)

\* matchFunc(tag, exprs...) as a value
MF(tag, exprs) == [fn |-> "matchFunc", tag |-> tag, exprs |-> exprs]

\* func(n) bool { return isText(n) && len(n.Data) > 1 && n.Data[0] == '@' }
IsUsername(h, n) == isText(h, n) /\ Len(h[n].Data) > 1 /\ h[n].Data[1] = "@"

\* isElement(n, "img") && strings.Contains(getAttr(n, "src"), "/profile_images/")
IsProfileImage(h, n) ==
  isElement(h, n, "img") /\ Contains(getAttr(h, n, "src"), <<"/", "profile_images", "/">>)

\* a lexeme of [0-9a-f]
HexDigits == <<"0", "1", "2", "3", "4", "5", "6", "7", "8", "9",
               "a", "b", "c", "d", "e", "f">>

EmojiPrefix == <<"https", ":", "/", "/">>
EmojiDir    == <<"/", "emoji", "/", "v2", "/", "svg", "/">>

\* emojiRegexp.FindStringSubmatch(s)[1]: the code point's digits, <<>> when s
\* does not match ^https://.*/emoji/v2/svg/([0-9a-f]+)\.svg$
EmojiSubmatch(s) ==
  LET starts == { i \in (Len(EmojiPrefix) + 1)..Len(s) :
                    /\ i + Len(EmojiDir) <= Len(s) - 1
                    /\ SubSeq(s, i, i + Len(EmojiDir) - 1) = EmojiDir
                    /\ s[Len(s)] = ".svg"
                    /\ \A j \in (i + Len(EmojiDir))..(Len(s) - 1) :
                         \E k \in 1..16 : HexDigits[k] = s[j] }
  IN  IF HasPrefix(s, EmojiPrefix) /\ starts # {}
        THEN LET i == CHOOSE i \in starts : TRUE
             IN  SubSeq(s, i + Len(EmojiDir), Len(s) - 1)
        ELSE <<>>

\* isElement(n, "div") && getAttr(n, "style") == "height: 1.2em;" && getAttr(n, "aria-label") != ""
IsEmojiDiv(h, n) ==
  /\ isElement(h, n, "div")
  /\ getAttr(h, n, "style") = <<"height", ":", " ", "1.2em;">>
  /\ getAttr(h, n, "aria-label") # <<>>

\* isElement(n, "img") && emojiRegexp.MatchString(getAttr(n, "src"))
IsEmojiImg(h, n) == isElement(h, n, "img") /\ EmojiSubmatch(getAttr(h, n, "src")) # <<>>

\* isText(n) && strings.Contains(n.Data, "\n")
IsNewlineText(h, n) == isText(h, n) /\ Contains(h[n].Data, <<"\n">>)

\* the predicate of inlineUserLinks
IsUserLink(h, n) ==
  /\ isElement(h, n, "a")
  /\ h[n].FirstChild # nil
  /\ h[n].FirstChild = h[n].LastChild
  /\ isText(h, h[n].FirstChild)
  /\ HasPrefix(h[h[n].FirstChild].Data, <<"@">>)
  /\ ~Contains(h[h[n].FirstChild].Data, <<" ">>)
  /\ isElement(h, h[n].Parent, "span")
  /\ isElement(h, h[h[n].Parent].Parent, "div")

\* the predicate of improveQuoteTweetHeader's cleanup
IsUselessText(h, n) ==
  /\ isText(h, n)
  /\ h[n].Data \in { <<"Quote", " ", "Tweet">>, <<"Show", " ", "this", " ", "poll">>,
                     <<"Show", " ", "this", " ", "thread">> }

\* the predicate of improveLinkCard
IsCard(h, n) ==
  /\ isElement(h, n, "div")
  /\ getAttr(h, n, "data-testid") \in { <<"card.layoutSmall.detail">>,
                                        <<"card.layoutLarge.detail">> }

Match(h, n, f) ==
  CASE f.fn = "matchFunc"    -> matchFunc(h, n, f.tag, f.exprs)
    [] f.fn = "username"     -> IsUsername(h, n)
    [] f.fn = "profileImage" -> IsProfileImage(h, n)
    [] f.fn = "emojiDiv"     -> IsEmojiDiv(h, n)
    [] f.fn = "emojiImg"     -> IsEmojiImg(h, n)
    [] f.fn = "newlineText"  -> IsNewlineText(h, n)
    [] f.fn = "userLink"     -> IsUserLink(h, n)
    [] f.fn = "uselessText"  -> IsUselessText(h, n)
    [] f.fn = "card"         -> IsCard(h, n)
    [] f.fn = "isText"       -> isText(h, n)
    [] f.fn = "tagClass"     -> /\ (f.tag # "" => isElement(h, n, f.tag))
                                /\ (f.class # <<>> => hasClass(h, n, f.class))
    [] f.fn = "preEmbedded"  -> /\ isElement(h, n, "a")
                                /\ getAttr(h, n, "data-pre-embedded") = <<"true">>
    [] f.fn = "expandedURL"  -> /\ isElement(h, n, "a")
                                /\ getAttr(h, n, "data-expanded-url") # <<>>

-----------------------------------------------------------------------------
(* html.go: the tree walks                                                 *)

RECURSIVE findNodesPrunedNot(_, _, _)
\* a findNodes that goes on below a node it has matched
findNodesPrunedNot(h, n, f) ==
  LET RECURSIVE from(_)
      from(c) == IF c = nil THEN <<>>
                 ELSE findNodesPrunedNot(h, c, f) \o from(h[c].NextSibling)
  IN  (IF Match(h, n, f) THEN <<n>> ELSE <<>>) \o from(h[n].FirstChild)

RECURSIVE findNodes(_, _, _)
\* findNodes: after a node is matched, its children are not examined
findNodes(h, n, f) ==
  LET RECURSIVE from(_)
      from(c) == IF c = nil THEN <<>>
                 ELSE findNodes(h, c, f) \o from(h[c].NextSibling)
  IN  IF Match(h, n, f) THEN <<n>> ELSE from(h[n].FirstChild)

RECURSIVE findFirstNode(_, _, _)
\* findFirstNode: depth-first, the first node for which f holds, or nil
findFirstNode(h, n, f) ==
  LET RECURSIVE from(_)
      from(c) == IF c = nil THEN nil
                 ELSE LET m == findFirstNode(h, c, f)
                      IN  IF m # nil THEN m ELSE from(h[c].NextSibling)
  IN  IF Match(h, n, f) THEN n ELSE from(h[n].FirstChild)

\* the filtering loop of deleteAttr over n.Attr
RECURSIVE DropAttr(_, _)
DropAttr(attrs, attr) ==
  IF attrs = <<>> THEN <<>>
  ELSE IF attrs[1].Key # attr THEN <<attrs[1]>> \o DropAttr(Tail(attrs), attr)
  ELSE DropAttr(Tail(attrs), attr)

\* a deleteAttr that forgets to recurse
deleteAttrShallow(h, n, attr) == [h EXCEPT ![n].Attr = DropAttr(@, attr)]

RECURSIVE deleteAttr(_, _, _)
\* deleteAttr: recursively deletes attr from n and its descendants
deleteAttr(h, n, attr) ==
  LET RECURSIVE from(_, _)
      from(g, c) == IF c = nil THEN g
                    ELSE from(deleteAttr(g, c, attr), g[c].NextSibling)
      h1 == [h EXCEPT ![n].Attr = DropAttr(@, attr)]
  IN  from(h1, h1[n].FirstChild)

RECURSIVE getText(_, _)
\* getText: concatenates all text content in and under n
getText(h, n) ==
  LET RECURSIVE from(_)
      from(c) == IF c = nil THEN <<>> ELSE getText(h, c) \o from(h[c].NextSibling)
  IN  IF n = nil THEN <<>>
      ELSE (IF h[n].Type = TextNode THEN h[n].Data ELSE <<>>) \o from(h[n].FirstChild)

-----------------------------------------------------------------------------
(* util.go: absoluteURL, with net/url's Parse and String on lexemes        *)

defaultScheme == <<"https">>
defaultHost   == <<"twitter.com">>

\* the lexemes that are runs of scheme characters (letters, digits, "+", "-", ".")
\* beginning with a letter
SchemeWords == {"https", "http", "blob", "mailto", "twitter.com", "www.google.com",
                "blah", "user", "other", "third", "status", "abc", "def", "pic",
                "mobile.twitter.com", "pbs.twimg.com", "photo", "media"}

\* the lexemes made of scheme characters that do not begin with a letter
SchemeTails == {"0", "1", "2", "3", "4", "5", "6", "7", "8", "9", "+", "-", ".svg"}

\* net/url getScheme: [err, scheme, rest]
RECURSIVE getSchemeFrom(_, _)
getSchemeFrom(s, i) ==
  IF i > Len(s) THEN [err |-> FALSE, scheme |-> <<>>, rest |-> s]
  ELSE IF s[i] \in SchemeWords THEN getSchemeFrom(s, i + 1)
  ELSE IF s[i] \in SchemeTails
    THEN IF i = 1 THEN [err |-> FALSE, scheme |-> <<>>, rest |-> s]
         ELSE getSchemeFrom(s, i + 1)
  ELSE IF s[i] = ":"
    THEN IF i = 1 THEN [err |-> TRUE, scheme |-> <<>>, rest |-> <<>>]
         ELSE [err |-> FALSE, scheme |-> SubSeq(s, 1, i - 1),
               rest |-> SubSeq(s, i + 1, Len(s))]
  ELSE [err |-> FALSE, scheme |-> <<>>, rest |-> s]

NoURL == [err |-> TRUE, Scheme |-> <<>>, Opaque |-> <<>>, Host |-> <<>>,
          Path |-> <<>>, ForceQuery |-> FALSE, RawQuery |-> <<>>, Fragment |-> <<>>]

\* strings.Cut(s, sep): [before, after]
Cut(s, sep) ==
  LET i == Index(s, sep)
  IN  IF i = 0 THEN [before |-> s, after |-> <<>>]
      ELSE [before |-> SubSeq(s, 1, i - 1), after |-> SubSeq(s, i + 1, Len(s))]

\* net/url parse: the authority of a "//" URL and the path after it
parseAuthority(url, authority) ==
  LET i == Index(authority, "/")
  IN  IF i = 0 THEN [url EXCEPT !.Host = authority]
      ELSE [url EXCEPT !.Host = SubSeq(authority, 1, i - 1),
                       !.Path = SubSeq(authority, i, Len(authority))]

\* net/url parse, after the scheme and the query are split off: the opaque
\* part, the colon in the first segment, the authority and the path
parsePath(url, rest) ==
  IF ~HasPrefix(rest, <<"/">>) /\ url.Scheme # <<>> THEN [url EXCEPT !.Opaque = rest]
  ELSE IF ~HasPrefix(rest, <<"/">>) /\ Contains(Cut(rest, "/").before, <<":">>) THEN NoURL
  ELSE IF (url.Scheme # <<>> \/ ~HasPrefix(rest, <<"/", "/", "/">>))
          /\ HasPrefix(rest, <<"/", "/">>)
    THEN parseAuthority(url, SubSeq(rest, 3, Len(rest)))
  ELSE [url EXCEPT !.Path = rest]

\* net/url parse: the query is split off at the first "?", found at q (0: none)
parseQuery(scheme, rest, q) ==
  parsePath([NoURL EXCEPT !.err = FALSE, !.Scheme = scheme,
                          !.ForceQuery = (q # 0 /\ q = Len(rest)),
                          !.RawQuery = IF q = 0 THEN <<>> ELSE SubSeq(rest, q + 1, Len(rest))],
            IF q = 0 THEN rest ELSE SubSeq(rest, 1, q - 1))

\* net/url parse, after getScheme
parseRest(sch) ==
  IF sch.err THEN NoURL ELSE parseQuery(sch.scheme, sch.rest, Index(sch.rest, "?"))

\* net/url (*URL).setFragment
setFragment(u, frag) == IF u.err THEN u ELSE [u EXCEPT !.Fragment = frag]

\* url.Parse after the fragment is cut off
parseFragment(c) == setFragment(parseRest(getSchemeFrom(c.before, 1)), c.after)

\* url.Parse; it rejects control characters and a percent sign that starts no
\* escape wherever they stand
urlParse(s) ==
  IF \E i \in 1..Len(s) : s[i] \in {"\n", "\t", "\r", "%zz"} THEN NoURL ELSE parseFragment(Cut(s, "#"))

\* (*URL).String
urlString(u) ==
  (IF u.Scheme # <<>> THEN u.Scheme \o <<":">> ELSE <<>>)
  \o (IF u.Opaque # <<>> THEN u.Opaque
      ELSE (IF (u.Scheme # <<>> \/ u.Host # <<>>) /\ (u.Host # <<>> \/ u.Path # <<>>)
              THEN <<"/", "/">> \o u.Host ELSE <<>>)
           \o (IF u.Path # <<>> /\ u.Path[1] # "/" /\ u.Host # <<>>
                 THEN <<"/">> ELSE <<>>)
           \o u.Path)
  \o (IF u.ForceQuery \/ u.RawQuery # <<>> THEN <<"?">> \o u.RawQuery ELSE <<>>)
  \o (IF u.Fragment # <<>> THEN <<"#">> \o u.Fragment ELSE <<>>)

\* u.IsAbs()
IsAbs(u) == u.Scheme # <<>>

\* absoluteURL, lines 64-73, for the result u of url.Parse(s)
makeAbsolute(s, u) ==
  IF u.err THEN s
  ELSE IF IsAbs(u) THEN s
  ELSE urlString([u EXCEPT !.Scheme = defaultScheme, !.Host = defaultHost])

\* absoluteURL: rewrites s to be an absolute twitter.com URL if relative
absoluteURL(s) == IF s = <<>> THEN s ELSE makeAbsolute(s, urlParse(s))

\* path.Base: the last element of the path, trailing slashes removed
pathBase(s) ==
  LET n == IF \A k \in 1..Len(s) : s[k] = "/" THEN 0
           ELSE CHOOSE k \in 1..Len(s) : s[k] # "/" /\ \A j \in (k + 1)..Len(s) : s[j] = "/"
      t == SubSeq(s, 1, n)
      i == IF \A k \in 1..n : t[k] # "/" THEN 0
           ELSE CHOOSE k \in 1..n : t[k] = "/" /\ \A j \in (k + 1)..n : t[j] # "/"
  IN  IF s = <<>> THEN <<".">>
      ELSE IF t = <<>> THEN <<"/">>
      ELSE SubSeq(t, i + 1, Len(t))

-----------------------------------------------------------------------------
(* strconv.ParseInt(s, 10, 64) on decimal numerals.  An int64 is kept as   *)
(* [neg, digits]: its sign and its decimal digits without leading zeros.   *)

Digits == <<"0", "1", "2", "3", "4", "5", "6", "7", "8", "9">>

\* the digits of math.MaxInt64 = 9223372036854775807 and, for a negative
\* numeral, of -math.MinInt64 = 9223372036854775808
Int64Limit(neg) ==
  <<"9", "2", "2", "3", "3", "7", "2", "0", "3", "6", "8", "5", "4",
    "7", "7", "5", "8", "0", IF neg THEN "8" ELSE "7">>

RECURSIVE StripZeros(_)
StripZeros(d) == IF Len(d) > 1 /\ d[1] = "0" THEN StripZeros(Tail(d)) ELSE d

\* a > b for numerals without leading zeros
RECURSIVE NumGreater(_, _)
NumGreater(a, b) ==
  IF Len(a) # Len(b) THEN Len(a) > Len(b)
  ELSE IF a = <<>> THEN FALSE
  ELSE IF a[1] # b[1] THEN (CHOOSE k \in 1..10 : Digits[k] = a[1]) > (CHOOSE k \in 1..10 : Digits[k] = b[1])
  ELSE NumGreater(Tail(a), Tail(b))

Int64Zero == [neg |-> FALSE, digits |-> <<"0">>]

\* a ParseInt that reports no range error and keeps the nearest int64
ParseIntClamped(s) ==
  LET signed == s # <<>> /\ s[1] \in {"+", "-"}
      neg    == s # <<>> /\ s[1] = "-"
      body   == IF signed THEN Tail(s) ELSE s
      d      == StripZeros(body)
      lim    == Int64Limit(neg)
  IN  IF body = <<>> \/ \E i \in 1..Len(body) : (\A k \in 1..10 : Digits[k] # body[i])
        THEN [err |-> TRUE, val |-> Int64Zero]
      ELSE IF NumGreater(d, lim)
        THEN [err |-> FALSE, val |-> [neg |-> neg, digits |-> lim]]
      ELSE [err |-> FALSE, val |-> [neg |-> neg /\ d # <<"0">>, digits |-> d]]

\* strconv.ParseInt(s, 10, 64): [err, val]; a syntax error yields 0 and a range
\* error the nearest int64
ParseInt(s) ==
  LET signed == s # <<>> /\ s[1] \in {"+", "-"}
      neg    == s # <<>> /\ s[1] = "-"
      body   == IF signed THEN Tail(s) ELSE s
      d      == StripZeros(body)
      lim    == Int64Limit(neg)
  IN  IF body = <<>> \/ \E i \in 1..Len(body) : (\A k \in 1..10 : Digits[k] # body[i])
        THEN [err |-> TRUE, val |-> Int64Zero]
      ELSE IF NumGreater(d, lim)
        THEN [err |-> TRUE, val |-> [neg |-> neg, digits |-> lim]]
      ELSE [err |-> FALSE, val |-> [neg |-> neg /\ d # <<"0">>, digits |-> d]]

-----------------------------------------------------------------------------
(* parse.go: the rewriters                                                 *)

\* unicode.MaxRune
MaxRune == 1114111

\* strconv.ParseUint(u, 16, 64): [err, big, val]; big says that the value has more
\* than six significant digits, so that it exceeds MaxRune whatever it is
RECURSIVE HexValue(_, _)
HexValue(d, acc) ==
  IF d = <<>> THEN acc ELSE HexValue(Tail(d), 16 * acc + (CHOOSE k \in 1..16 : HexDigits[k] = d[1]) - 1)

ParseUintHex(u) ==
  LET d == StripZeros(u)
  IN  IF Len(d) > 16 THEN [err |-> TRUE, big |-> TRUE, val |-> 0]
      ELSE IF Len(d) > 6 THEN [err |-> FALSE, big |-> TRUE, val |-> 0]
      ELSE [err |-> FALSE, big |-> FALSE, val |-> HexValue(d, 0)]

\* string(rune(v)): the one-character string of code point v
RuneString(v) ==
  CASE v = 10     -> <<"\n">>
    [] v = 64     -> <<"@">>
    [] v = 128073 -> <<"U+1F449">>
    [] OTHER      -> <<"U+FFFD">>

\* fixEmoji, line 295: *n = html.Node{Type: html.TextNode, Data: string(rune(v))}
\* unless the code point v is unusable (lines 285-293)
setEmoji(g, n, v) ==
  IF v.err \/ v.big \/ v.val > MaxRune THEN g
  ELSE [g EXCEPT ![n] = NewNode(TextNode, RuneString(v.val), <<>>)]

\* the body of fixEmoji's loop for the wrapper n and the image img found in it
replaceEmoji(g, n, img) ==
  IF img = nil THEN g
  ELSE setEmoji(g, n, ParseUintHex(EmojiSubmatch(getAttr(g, img, "src"))))

\* fixEmoji: replaces emoji images with text nodes containing the emoji themselves
fixEmoji(h, root) ==
  LET RECURSIVE loop(_, _)
      loop(g, ns) ==
        IF ns = <<>> THEN g
        ELSE loop(replaceEmoji(g, Head(ns),
                               findFirstNode(g, Head(ns), [fn |-> "emojiImg"])),
                  Tail(ns))
  IN  loop(h, findNodes(h, root, [fn |-> "emojiDiv"]))

\* next = tn.NextSibling, after the insertion that left the heap h
setNext(h, tn) == [h |-> h, next |-> IF IsPanic(h) THEN nil ELSE h[tn].NextSibling]

\* tn := &html.Node{...}; parent.InsertBefore(tn, next); next = tn.NextSibling,
\* on s = [h, next]
insertNode(s, parent, node) ==
  IF IsPanic(s.h) THEN s
  ELSE setNext(InsertBefore(Alloc(s.h, node), parent, NewPtr(s.h), s.next), NewPtr(s.h))

\* addLineBreaks, lines 310-314: the text node of a non-empty part
insertPart(s, parent, p) ==
  IF p # <<>> THEN insertNode(s, parent, NewNode(TextNode, p, <<>>)) ELSE s

\* addLineBreaks, lines 315-323: the <br> and the "\n" text node after a part
\* that is not the last
insertBreak(s, parent, last) ==
  IF last THEN s
  ELSE insertNode(insertNode(s, parent, NewNode(ElementNode, "br", <<>>)),
                  parent, NewNode(TextNode, <<"\n">>, <<>>))

\* the loop of addLineBreaks over parts, from part i on
RECURSIVE InsertParts(_, _, _, _)
InsertParts(s, parent, parts, i) ==
  IF i > Len(parts) \/ IsPanic(s.h) THEN s.h
  ELSE InsertParts(insertBreak(insertPart(s, parent, parts[i]), parent, i = Len(parts)),
                   parent, parts, i + 1)

\* the body of addLineBreaks' loop for the text node tn
splitText(g, tn) ==
  InsertParts([h |-> RemoveChild(g, g[tn].Parent, tn), next |-> g[tn].NextSibling],
              g[tn].Parent, Split(g[tn].Data, "\n"), 1)

\* an addLineBreaks that rewrites only the first text node it finds
addLineBreaksFirstOnly(h, n) ==
  LET RECURSIVE loop(_, _)
      loop(g, ns) == IF ns = <<>> \/ IsPanic(g) THEN g ELSE splitText(g, Head(ns))
  IN  loop(h, findNodes(h, n, [fn |-> "newlineText"]))

\* addLineBreaks: splits text nodes under n on newlines and inserts <br> tags
addLineBreaks(h, n) ==
  LET RECURSIVE loop(_, _)
      loop(g, ns) ==
        IF ns = <<>> \/ IsPanic(g) THEN g ELSE loop(splitText(g, Head(ns)), Tail(ns))
  IN  loop(h, findNodes(h, n, [fn |-> "newlineText"]))

\* the loop of rewriteRelativeLinks over link.Attr
RECURSIVE AbsoluteHrefs(_)
AbsoluteHrefs(attrs) ==
  IF attrs = <<>> THEN <<>>
  ELSE <<(IF attrs[1].Key = "href"
            THEN [attrs[1] EXCEPT !.Val = absoluteURL(@)]
            ELSE attrs[1])>> \o AbsoluteHrefs(Tail(attrs))

\* rewriteRelativeLinks: rewrites all relative links in n to be absolute
rewriteRelativeLinks(h, n) ==
  LET RECURSIVE loop(_, _)
      loop(g, ns) ==
        IF ns = <<>> THEN g
        ELSE loop([g EXCEPT ![Head(ns)].Attr = AbsoluteHrefs(@)], Tail(ns))
  IN  loop(h, findNodes(h, n, MF("a", <<>>)))

\* inlineUserLinks: converts divs wrapping user links in a tweet into spans
inlineUserLinks(h, n) ==
  LET RECURSIVE loop(_, _)
      loop(g, ns) ==
        IF ns = <<>> THEN g
        ELSE LET div == g[g[Head(ns)].Parent].Parent
             IN  loop([g EXCEPT ![div].Data = "span"], Tail(ns))
  IN  loop(h, findNodes(h, n, [fn |-> "userLink"]))

\* for div.FirstChild != nil { div.RemoveChild(div.FirstChild) }
RECURSIVE RemoveAllChildren(_, _)
RemoveAllChildren(h, div) ==
  IF IsPanic(h) THEN h
  ELSE IF h[div].FirstChild = nil THEN h
  ELSE RemoveAllChildren(RemoveChild(h, div, h[div].FirstChild), div)

\* the collapsing of runs of blanks into one blank, a trailing run dropped
RECURSIVE CollapseSpaces(_)
CollapseSpaces(s) ==
  IF s = <<>> THEN <<>>
  ELSE IF s[1] = " "
    THEN (IF Len(s) > 1 /\ s[2] # " " THEN <<" ">> ELSE <<>>) \o CollapseSpaces(Tail(s))
  ELSE <<s[1]>> \o CollapseSpaces(Tail(s))

\* getText(n, true): the text under n, blanks collapsed and trimmed
getTextSpaced(h, n) ==
  LET t == CollapseSpaces(getText(h, n))
  IN  IF t # <<>> /\ t[1] = " " THEN Tail(t) ELSE t

\* improveQuoteTweetHeader, lines 374-383: the profile image is detached, the
\* header div emptied and the image put back
reattachImage(h, div, img) ==
  IF img # nil
    THEN AppendChild(RemoveAllChildren(RemoveChild(h, h[img].Parent, img), div), div, img)
    ELSE RemoveAllChildren(h, div)

\* improveQuoteTweetHeader, lines 384-386: the bold text s appended to the div
appendBold(h, div, s) ==
  IF IsPanic(h) THEN h
  ELSE AppendChild(AppendChild(Alloc(Alloc(h, NewNode(ElementNode, "b", <<>>)),
                                     NewNode(TextNode, s, <<>>)),
                               NewPtr(h), NewPtr(h) + 1),
                   div, NewPtr(h))

\* improveQuoteTweetHeader, lines 389-394: the useless text under n is blanked
blankUseless(h, n) ==
  LET RECURSIVE blank(_, _)
      blank(g, ns) ==
        IF ns = <<>> THEN g ELSE blank([g EXCEPT ![Head(ns)].Data = <<>>], Tail(ns))
  IN  IF IsPanic(h) THEN h ELSE blank(h, findNodes(h, n, [fn |-> "uselessText"]))

\* improveQuoteTweetHeader, lines 367-394, for the header div found
mergeHeader(h, n, div) ==
  blankUseless(appendBold(reattachImage(h, div,
                                        findFirstNode(h, div, [fn |-> "profileImage"])),
                          div, <<" ">> \o getTextSpaced(h, div)),
               n)

\* improveQuoteTweetHeader, lines 358-367, for the time element tn found
quoteHeader(h, n, tn) ==
  IF tn = nil THEN h
  ELSE IF ~( /\ isElement(h, h[tn].Parent, "span")
             /\ isElement(h, h[h[tn].Parent].Parent, "div")
             /\ isElement(h, h[h[h[tn].Parent].Parent].Parent, "div")) THEN h
  ELSE mergeHeader(h, n, h[h[h[tn].Parent].Parent].Parent)

\* improveQuoteTweetHeader: merges a quoted tweet's header into one bold text
improveQuoteTweetHeader(h, n) ==
  IF IsPanic(h) THEN h ELSE quoteHeader(h, n, findFirstNode(h, n, MF("time", <<>>)))

\* improveLinkCard, lines 420-425 and 428-433: the text node t is put under a
\* new element tag that takes its place
wrapText(h, t, tag) ==
  IF t = nil THEN h
  ELSE AppendChild(RemoveChild(InsertBefore(Alloc(h, NewNode(ElementNode, tag, <<>>)),
                                            h[t].Parent, NewPtr(h), t),
                               h[t].Parent, t),
                   NewPtr(h), t)

\* "Reparent the text under a <b> or <i> element" of improveLinkCard
Reparent(h, child, tag) ==
  IF IsPanic(h) THEN h ELSE wrapText(h, findFirstNode(h, child, [fn |-> "isText"]), tag)

\* improveLinkCard, lines 419-433, for the children of the card
reparentCard(h, children) ==
  IF Len(children) # 3 THEN h
  ELSE Reparent(Reparent(h, children[1], "b"), children[3], "i")

\* improveLinkCard, lines 406-417, for the card node cn found
cardChildren(h, cn) == IF cn = nil THEN h ELSE reparentCard(h, Children(h, cn))

\* improveLinkCard: looks for a link card in n and improves its styling
improveLinkCard(h, n) ==
  IF IsPanic(h) THEN h ELSE cardChildren(h, findFirstNode(h, n, [fn |-> "card"]))

\* for _, n := range ns { n.Parent.RemoveChild(n) }
RECURSIVE removeNodes(_, _)
removeNodes(g, ns) ==
  IF ns = <<>> \/ IsPanic(g) THEN g
  ELSE removeNodes(RemoveChild(g, g[Head(ns)].Parent, Head(ns)), Tail(ns))

\* fixVideos, lines 441-444: "controls" is appended to a video that is not a blob
addControls(g, v) ==
  IF ~HasPrefix(getAttr(g, v, "src"), <<"blob", ":">>)
    THEN [g EXCEPT ![v].Attr = Append(@, [Key |-> "controls", Val |-> <<>>])]
    ELSE g

\* fixVideos, lines 445-449: the images showing the poster are removed
removePoster(g, n, poster) ==
  IF poster # <<>>
    THEN removeNodes(g, findNodes(g, n, MF("img", << <<"src", "=">> \o poster >>)))
    ELSE g

\* fixVideos: adds "controls" to playable videos and removes their screenshots
fixVideos(h, n) ==
  LET RECURSIVE loop(_, _)
      loop(g, vs) ==
        IF vs = <<>> \/ IsPanic(g) THEN g
        ELSE loop(removePoster(addControls(g, Head(vs)), n, getAttr(g, Head(vs), "poster")),
                  Tail(vs))
  IN  IF IsPanic(h) THEN h ELSE loop(h, findNodes(h, n, MF("video", <<>>)))

\* simplifyContent, lines 468-470: the svg elements are dropped
removeSvgs(h, root) == removeNodes(h, findNodes(h, root, MF("svg", <<>>)))

\* a simplifyContent that drops only the first svg element it finds
simplifyContentFirstSvg(h, root) ==
  IF IsPanic(h) THEN h
  ELSE removeNodes(deleteAttr(deleteAttr(deleteAttr(deleteAttr(deleteAttr(deleteAttr(
         h, root, "style"), root, "aria-hidden"), root, "data-focusable"),
         root, "data-testid"), root, "draggable"), root, "role"),
         SelectSeq(findNodes(h, root, MF("svg", <<>>)),
                   LAMBDA n : n = findFirstNode(h, root, MF("svg", <<>>))))

\* simplifyContent: removes probably-useless elements and styling from within root
simplifyContent(h, root) ==
  IF IsPanic(h) THEN h
  ELSE removeSvgs(deleteAttr(deleteAttr(deleteAttr(deleteAttr(deleteAttr(deleteAttr(
         h, root, "style"), root, "aria-hidden"), root, "data-focusable"),
         root, "data-testid"), root, "draggable"), root, "role"), root)

-----------------------------------------------------------------------------
(* parse.go: parseProfile and the steps of parseTweet                      *)

\* imgSizeRegexp.ReplaceAllLiteralString(s, repl); the last lexemes that
\* imgSizeRegexp (_\d+x\d+\.jpg$) matches are listed
ReplaceSize(s, repl) ==
  IF s # <<>> /\ s[Len(s)] \in {"_200x200.jpg", "_400x400.jpg", "_48x48.jpg"}
    THEN SubSeq(s, 1, Len(s) - 1) \o <<repl>>
    ELSE s

NoProfile == [User |-> <<>>, Name |-> <<>>, Icon |-> <<>>, Image |-> <<>>]

\* un.Parent.Parent.Parent, or nil where one of the three parents is missing
greatGrandparent(h, un) ==
  IF h[un].Parent = nil THEN nil
  ELSE IF h[h[un].Parent].Parent = nil THEN nil
  ELSE h[h[h[un].Parent].Parent].Parent

\* parseProfile, lines 103-109, for the username node un found
profileUser(h, un) ==
  IF un = nil THEN [err |-> "didn't find username", pr |-> NoProfile, un |-> nil]
  ELSE [err |-> "", pr |-> [NoProfile EXCEPT !.User = Tail(h[un].Data)], un |-> un]

\* parseProfile, lines 111-114
profileName(h, s) ==
  IF s.err # "" THEN s
  ELSE IF greatGrandparent(h, s.un) = nil THEN [s EXCEPT !.err = "didn't find full name"]
  ELSE [s EXCEPT !.pr.Name = getText(h, h[greatGrandparent(h, s.un)].PrevSibling)]

\* parseProfile, line 123
setIcon(s) == [s EXCEPT !.pr.Icon = ReplaceSize(s.pr.Image, "_normal.jpg")]

\* parseProfile, lines 116-125, for the image node img found
profileImage(h, s, img) ==
  IF s.err # "" THEN s
  ELSE IF img = nil THEN [s EXCEPT !.err = "didn't find profile image"]
  ELSE setIcon([s EXCEPT !.pr.Image = ReplaceSize(getAttr(h, img, "src"), "_400x400.jpg")])

\* parseProfile: [err, pr]
parseProfile(h, n) ==
  profileImage(h, profileName(h, profileUser(h, findFirstNode(h, n, [fn |-> "username"]))),
               findFirstNode(h, n, [fn |-> "profileImage"]))

\* var tw tweet
NoTweet == [ID |-> Int64Zero, Href |-> <<>>, User |-> <<>>, Name |-> <<>>,
            Time |-> <<>>, Content |-> <<>>, Text |-> <<>>, ReplyUsers |-> <<>>]

\* the local variables of parseTweet that hold nodes
NoLocals == [main |-> nil, head |-> nil, tm |-> nil, un |-> nil, body |-> nil,
             children |-> <<>>, text |-> nil, embed |-> nil, content |-> nil]

\* the handles of the reply-context loop: n.Data[1:] of each node found
RECURSIVE Handles(_, _)
Handles(h, ns) ==
  IF ns = <<>> THEN <<>> ELSE <<Tail(h[Head(ns)].Data)>> \o Handles(h, Tail(ns))

\* parseTweet, lines 134 and 140-143: main and head; s = [err, tw, loc]
tweetHead(h, main) ==
  [err |-> IF h[main].FirstChild = nil THEN "no header" ELSE "",
   tw  |-> NoTweet,
   loc |-> [NoLocals EXCEPT !.main = main, !.head = h[main].FirstChild]]

\* parseTweet, lines 147-153, for the time element tm found; the timestamps
\* that time.Parse(time.RFC3339, s) accepts are listed
setTime(h, s, tm) ==
  IF tm = nil THEN [s EXCEPT !.err = "failed finding time"]
  ELSE IF getAttr(h, tm, "datetime") \notin { <<"2020-03-01T03:00:00.000Z">>,
                                              <<"2020-02-29T12:30:00.000Z">> }
    THEN [s EXCEPT !.err = "parsing time", !.loc.tm = tm]
  ELSE [s EXCEPT !.tw.Time = getAttr(h, tm, "datetime"), !.loc.tm = tm]

\* parseTweet, lines 146-153
tweetTime(h, s) ==
  IF s.err # "" THEN s
  ELSE setTime(h, s, findFirstNode(h, s.loc.head, MF("time", << <<"datetime">> >>)))

\* parseTweet, lines 166-168, for the result id of strconv.ParseInt
setID(s, id) ==
  [s EXCEPT !.tw.ID = id.val, !.err = IF id.err THEN "failed parsing ID" ELSE ""]

\* parseTweet, lines 163-168, for the absolute URL href of the tweet
setHref(s, href) == setID([s EXCEPT !.tw.Href = href], ParseInt(pathBase(href)))

\* parseTweet, lines 156-168
tweetLink(h, s) ==
  IF s.err # "" THEN s
  ELSE IF ~isElement(h, h[s.loc.tm].Parent, "a")
    THEN [s EXCEPT !.err = "failed finding link"]
  ELSE setHref(s, absoluteURL(getAttr(h, h[s.loc.tm].Parent, "href")))

\* parseTweet, lines 174-177, for the username node un found
setUser(h, s, un) ==
  IF un = nil THEN [s EXCEPT !.err = "didn't find username"]
  ELSE [s EXCEPT !.tw.User = Tail(h[un].Data), !.loc.un = un]

\* parseTweet, lines 171-177
tweetUser(h, s) ==
  IF s.err # "" THEN s
  ELSE setUser(h, s, findFirstNode(h, s.loc.head, [fn |-> "username"]))

\* parseTweet, lines 180-183
tweetName(h, s) ==
  IF s.err # "" THEN s
  ELSE IF greatGrandparent(h, s.loc.un) = nil
    THEN [s EXCEPT !.err = "didn't find full name"]
  ELSE [s EXCEPT !.tw.Name = getText(h, h[greatGrandparent(h, s.loc.un)].PrevSibling)]

\* a switch that takes the text and the embed from every body of three or more
\* children
tweetChildrenLax(h, s) ==
  IF Len(s.loc.children) >= 3
    THEN [s EXCEPT !.loc.text = s.loc.children[1], !.loc.embed = s.loc.children[2]]
    ELSE [s EXCEPT !.err = "body contains n children; want 3 or 4"]

\* a switch that collects the handles of every body, from its first child
tweetChildrenAllHandles(h, s) ==
  IF Len(s.loc.children) \in {3, 4}
    THEN [s EXCEPT !.tw.ReplyUsers =
                     Handles(h, findNodes(h, s.loc.children[1], [fn |-> "username"])),
                   !.loc.text = s.loc.children[Len(s.loc.children) - 2],
                   !.loc.embed = s.loc.children[Len(s.loc.children) - 1]]
    ELSE [s EXCEPT !.err = "body contains n children; want 3 or 4"]

\* parseTweet, lines 199-216: the switch on len(children)
tweetChildren(h, s) ==
  IF Len(s.loc.children) = 3
    THEN [s EXCEPT !.loc.text = s.loc.children[1], !.loc.embed = s.loc.children[2]]
  ELSE IF Len(s.loc.children) = 4
    THEN [s EXCEPT !.tw.ReplyUsers =
                     Handles(h, findNodes(h, s.loc.children[1], [fn |-> "username"])),
                   !.loc.text = s.loc.children[2], !.loc.embed = s.loc.children[3]]
  ELSE [s EXCEPT !.err = "body contains n children; want 3 or 4"]

\* parseTweet, lines 185-198: the body and its children
tweetBody(h, s) ==
  IF s.err # "" THEN s
  ELSE IF h[s.loc.head].NextSibling = nil THEN [s EXCEPT !.err = "no body"]
  ELSE tweetChildren(h, [s EXCEPT !.loc.body = h[s.loc.head].NextSibling,
                                  !.loc.children = Children(h, h[s.loc.head].NextSibling)])

\* parseTweet, lines 140-216: the header fields and the body's child-count switch;
\* [err, tw, loc]
parseTweetHeader(h, n) ==
  tweetBody(h, tweetName(h, tweetUser(h, tweetLink(h, tweetTime(h,
    tweetHead(h, h[h[n].FirstChild].NextSibling))))))

\* fmt.Sprintf("%s (@%s)", tw.Name, tw.User)
displayName(t) == t.Name \o <<" ", "(", "@">> \o t.User \o <<")">>

\* parseTweet, lines 220-232: the attribution link; the content div is the node
\* allocated last
banner(h, t) ==
  AppendChild(AppendChild(AppendChild(AppendChild(
    Alloc(Alloc(Alloc(Alloc(h,
      NewNode(ElementNode, "a", << [Key |-> "href", Val |-> t.Href] >>)),
      NewNode(TextNode, displayName(t), <<>>)),
      NewNode(ElementNode, "b", <<>>)),
      NewNode(ElementNode, "br", <<>>)),
    NewPtr(h), NewPtr(h) + 1), NewPtr(h) + 2, NewPtr(h)),
    Len(h), NewPtr(h) + 2), Len(h), NewPtr(h) + 3)

\* parseTweet, lines 234-235: body.RemoveChild(text); content.AppendChild(text)
moveText(h, content, l) ==
  [h |-> AppendChild(RemoveChild(h, l.body, l.text), content, l.text),
   content |-> content]

\* a content step that adds the attribution banner to every tweet
buildContentAlwaysBanner(h, t, l, timelineUser) ==
  moveText(banner(Alloc(h, NewNode(ElementNode, "div", <<>>)), t), NewPtr(h), l)

\* parseTweet, lines 217-235: the content div, the attribution banner of a
\* retweet and the text block; [h, content]
buildContent(h, t, l, timelineUser) ==
  moveText(IF t.User # timelineUser
             THEN banner(Alloc(h, NewNode(ElementNode, "div", <<>>)), t)
             ELSE Alloc(h, NewNode(ElementNode, "div", <<>>)),
           NewPtr(h), l)

\* parseTweet, lines 237-240: the rule and the line break before a non-empty
\* embed, and the embed's removal from the body
detachEmbed(h, l) ==
  RemoveChild(AppendChild(AppendChild(
                Alloc(Alloc(h, NewNode(ElementNode, "hr", <<>>)),
                      NewNode(ElementNode, "br", <<>>)),
                l.content, NewPtr(h)), l.content, NewPtr(h) + 1),
              l.body, l.embed)

\* html.Render, as the tree it serializes: [Type, Data, Attr, Kids]
RECURSIVE Render(_, _)
Render(h, n) ==
  LET RECURSIVE from(_)
      from(c) == IF c = nil THEN <<>> ELSE <<Render(h, c)>> \o from(h[c].NextSibling)
  IN  [Type |-> h[n].Type, Data |-> h[n].Data, Attr |-> h[n].Attr,
       Kids |-> from(h[n].FirstChild)]

\* tweet.reply
reply(t) ==
  Len(t.ReplyUsers) > 0 /\ (Len(t.ReplyUsers) > 1 \/ t.ReplyUsers[1] # t.User)

-----------------------------------------------------------------------------
(* Documents.  html.Parse is the golang.org/x/net/html library; the model  *)
(* starts from the tree it returns.  A document is written as a term       *)
(* [Type, Data, Attr, Kids] and Build lays it out in the heap.  The        *)
(* documents follow the markup parse.go's comments describe: a primary     *)
(* column holding the profile and the tweet divs, each tweet a left column *)
(* and a main column of a header and a body, the body's children divs.     *)

E(tag, attrs, kids) == [Type |-> ElementNode, Data |-> tag, Attr |-> attrs, Kids |-> kids]
T(data) == [Type |-> TextNode, Data |-> data, Attr |-> <<>>, Kids |-> <<>>]
At(key, val) == [Key |-> key, Val |-> val]

RECURSIVE Build(_, _)
Build(h, t) ==
  LET n == Len(h) + 1
      RECURSIVE kids(_, _)
      kids(g, ks) ==
        IF ks = <<>> \/ IsPanic(g) THEN g
        ELSE kids(AppendChild(Build(g, Head(ks)), n, Len(g) + 1), Tail(ks))
  IN  kids(Append(h, NewNode(t.Type, t.Data, t.Attr)), t.Kids)

\* the largest number of tweet divs in a document
MaxTweets == 3

\* the largest number of children of a tweet's body
MaxKids == 5

Owner == "user"

TwitterPrefix == <<"https", ":", "/", "/", "twitter.com">>
PosterURL == <<"https", ":", "/", "/", "pbs.twimg.com", "/", "poster.jpg">>
AvatarURL == <<"https", ":", "/", "/", "pbs.twimg.com", "/", "profile_images", "/",
               "1", "/", "pic", "_200x200.jpg">>
\* the wrapper div of an emoji image and the image of the code point code
Emoji(code) ==
  E("div", <<At("aria-label", <<"emoji">>), At("style", <<"height", ":", " ", "1.2em;">>),
             At("class", <<"r-1">>)>>,
    << E("img", <<At("src", <<"https", ":", "/", "/", "abs-0.twimg.com">> \o EmojiDir
                             \o code \o <<".svg">>),
                  At("draggable", <<"false">>)>>, <<>>) >>)

\* the name block and the handle block: the handle's text node, three levels
\* down, and the full name in the previous sibling of its great-grandparent
NameAndHandle(name, handle) ==
  << E("div", <<At("class", <<"css-1">>)>>, << E("span", <<>>, << T(name) >>) >>),
     E("div", <<At("class", <<"css-2">>)>>,
       << E("div", <<>>, << E("span", <<>>, << T(<<"@", handle>>) >>) >>) >>) >>

FullName(handle) == IF handle = Owner THEN <<"User", " ", "Name">> ELSE <<"Other", " ", "One">>

\* the blocks a tweet's body is made of
Block(name, author) ==
  CASE name = "ctxSelf" ->
         E("div", <<>>, << T(<<"Replying", " ", "to">>),
                          E("span", <<>>, << T(<<"@", author>>) >>) >>)
    [] name = "ctxOther" ->
         E("div", <<>>, << T(<<"Replying", " ", "to">>),
                          E("span", <<>>, << T(<<"@", "third">>) >>) >>)
    [] name = "ctxBoth" ->
         E("div", <<>>, << T(<<"Replying", " ", "to">>),
                          E("span", <<>>, << T(<<"@", author>>) >>),
                          E("span", <<>>, << T(<<"@", "third">>) >>) >>)
    [] name = "ctxNone" ->
         E("div", <<>>, << T(<<"Replying", " ", "to">>) >>)
    [] name = "textPlain" ->
         E("div", <<At("class", <<"css-3">>), At("style", <<"color", ":", " ", "red">>)>>,
           << E("span", <<At("class", <<"css-4">>)>>, << T(<<"hello">>) >>) >>)
    [] name = "textEmpty" -> E("div", <<At("class", <<"css-3">>)>>, <<>>)
    [] name = "textLines" ->
         E("div", <<At("class", <<"css-3">>)>>,
           << T(<<"\n">>),
              E("span", <<At("style", <<"color", ":", " ", "red">>)>>,
                << T(<<"one", "\n", "\n", "two", "\n">>) >>),
              T(<<"three", "\n", "four">>),
              E("a", <<At("href", <<"/", "five">>)>>, << T(<<"five">>) >>) >>)
    [] name = "textHandles" ->
         E("div", <<>>, << E("span", <<>>, << T(<<"@", "fourth">>) >>),
                          T(<<" ", "said", " ", "hi">>) >>)
    [] name = "textLinks" ->
         E("div", <<>>,
           << E("a", <<At("href", <<"/", "blah", "?", "abc", "=", "def">>),
                       At("role", <<"link">>)>>, << T(<<"one">>) >>),
              E("a", <<At("href", <<"blah">>)>>, << T(<<"two">>) >>),
              E("a", <<At("href", <<"https", ":", "/", "/", "www.google.com", "/">>),
                       At("class", <<"css-5">>)>>, << T(<<"three">>) >>),
              E("a", <<At("href", <<>>)>>, << T(<<"four">>) >>),
              E("a", <<At("href", <<"/", "%zz">>)>>, << T(<<"five">>) >>) >>)
    [] name = "textUserLink" ->
         E("div", <<>>,
           << E("div", <<At("class", <<"css-6">>)>>,
                << E("span", <<>>,
                     << E("a", <<At("href", <<"/", "third">>), At("style", <<"x">>)>>,
                          << T(<<"@", "third">>) >>) >>) >>),
              T(<<" ", "hello">>) >>)
    [] name = "textEmoji" ->
         E("div", <<>>,
           << E("span", <<>>, << T(<<"look">>) >>),
              Emoji(<<"1", "f", "4", "4", "9">>),
              E("span", <<At("class", <<"css-7">>)>>, << T(<<"there">>) >>),
              Emoji(<<"1", "1", "0", "0", "0", "0">>) >>)
    [] name = "embedEmpty" -> E("div", <<>>, <<>>)
    [] name = "embedVideo" ->
         E("div", <<At("style", <<"padding-bottom", ":", " ", "48%">>)>>,
           << E("img", <<At("src", PosterURL)>>, <<>>),
              E("video", <<At("src", <<"https", ":", "/", "/", "video.twimg.com", "/", "v.mp4">>),
                           At("poster", PosterURL), At("class", <<"css-8">>)>>, <<>>) >>)
    [] name = "embedBlob" ->
         E("div", <<>>,
           << E("video", <<At("src", <<"blob", ":", "https", ":", "/", "/", "twitter.com", "/", "1">>)>>,
                <<>>),
              E("svg", <<At("class", <<"css-9">>)>>, << E("g", <<At("style", <<"x">>)>>, <<>>) >>),
              E("svg", <<>>, <<>>) >>)
    [] name = "embedQuote" ->
         E("div", <<>>,
           << E("div", <<At("role", <<"blockquote">>)>>,
                << E("div", <<At("class", <<"css-10">>)>>,
                     << E("img", <<At("src", AvatarURL)>>, <<>>),
                        E("div", <<>>, << E("span", <<>>, << T(<<"Quoted", "\n", "Name">>) >>) >>),
                        E("div", <<>>,
                          << E("span", <<>>,
                               << E("time", <<At("datetime", <<"2020-02-29T12:30:00.000Z">>)>>,
                                    << T(<<"Feb", " ", "29">>) >>) >>) >>) >>),
                   E("div", <<>>, << T(<<"Quote", " ", "Tweet">>) >>),
                   E("div", <<At("data-testid", <<"tweet">>)>>, << T(<<"quoted", " ", "text">>) >>) >>) >>)
    [] name = "embedQuoteEmoji" ->
         E("div", <<>>,
           << E("div", <<>>,
                << E("div", <<>>,
                     << E("span", <<>>,
                          << E("time", <<At("datetime", <<"2020-02-29T12:30:00.000Z">>)>>,
                               << T(<<"Feb", " ", "29">>) >>) >>) >>),
                   Emoji(<<"1", "f", "4", "4", "9">>) >>) >>)
    [] name = "embedCard" ->
         E("div", <<>>,
           << E("div", <<At("data-testid", <<"card.layoutSmall.detail">>)>>,
                << E("div", <<>>, << E("span", <<>>, << T(<<"Title">>) >>) >>),
                   E("div", <<>>, << T(<<"Description">>) >>),
                   E("div", <<At("class", <<"css-11">>)>>, << T(<<"example.com">>) >>) >>) >>)
    [] name = "footer" ->
         E("div", <<At("role", <<"group">>)>>,
           << E("span", <<>>, << T(<<"@", "nobody">>) >>), T(<<"3", " ", "likes">>) >>)

\* the canonical links of the tweets; "uint64" is the status number of the
\* comment on getImageURL
Href(name, author) ==
  CASE name = "relative"  -> <<"/", author, "/", "status", "/", "5">>
    [] name = "absolute"  -> TwitterPrefix \o <<"/", author, "/", "status", "/", "1", "2">>
    [] name = "notNumber" -> <<"/", author, "/", "status", "/", "abc">>
    [] name = "zero"      -> <<"/", author, "/", "status", "/", "0">>
    [] name = "zeros"     -> <<"/", author, "/", "status", "/", "0", "0", "7">>
    [] name = "negative"  -> <<"/", author, "/", "status", "/", "-", "5">>
    [] name = "maxInt64"  -> <<"/", author, "/", "status", "/">> \o Int64Limit(FALSE)
    [] name = "minInt64"  -> <<"/", author, "/", "status", "/">> \o Int64Limit(TRUE)
    [] name = "uint64"    -> <<"/", author, "/", "status", "/", "1", "2", "8", "1", "3", "2",
                               "3", "2", "5", "4", "3", "1", "3", "2", "4", "4", "5", "3",
                               "2", "3">>
    [] name = "empty"     -> <<>>

\* one tweet div, from v = [author, href, body]
TweetTerm(v) ==
  LET kids == [i \in 1..Len(v.body) |-> Block(v.body[i], v.author)]
      head == E("div", <<>>,
                NameAndHandle(FullName(v.author), v.author)
                \o << E("a", <<At("href", Href(v.href, v.author))>>,
                        << E("time", <<At("datetime", <<"2020-03-01T03:00:00.000Z">>)>>,
                             << T(<<"23", "m">>) >>) >>) >>)
  IN  E("div", <<At("data-testid", <<"tweet">>)>>,
        << E("div", <<>>, <<>>),
           E("div", <<>>,
             IF v.body = <<"none">> THEN <<head>> ELSE << head, E("div", <<>>, kids) >>) >>)

\* the profile region of the primary column: the name and handle blocks and
\* the avatar, in the shape l
ProfileTerm(l) ==
  CASE l = "noHandle"  -> << E("img", <<At("src", AvatarURL)>>, <<>>) >>
    [] l = "noSibling" -> << E("div", <<>>,
                               << NameAndHandle(FullName(Owner), Owner)[2],
                                  E("img", <<At("src", AvatarURL)>>, <<>>) >>) >>
    [] l = "emptyName" -> << E("div", <<>>,
                               NameAndHandle(<<>>, Owner)
                               \o << E("img", <<At("src", AvatarURL)>>, <<>>) >>) >>
    [] l = "bareHandle" -> << T(<<"@", Owner>>), E("img", <<At("src", AvatarURL)>>, <<>>) >>
    [] l = "noImage"   -> << E("div", <<>>, NameAndHandle(FullName(Owner), Owner)) >>
    [] OTHER           -> << E("div", <<>>,
                               NameAndHandle(FullName(Owner), Owner)
                               \o << E("img", <<At("src", AvatarURL)>>, <<>>) >>) >>

\* a timeline page of the tweets vs, its profile region in the shape l
DocTerm(l, vs) ==
  [Type |-> DocumentNode, Data |-> "", Attr |-> <<>>, Kids |->
    << E("html", <<>>,
         << E("body", <<>>,
              << E("div", IF l = "noColumn" THEN <<>>
                          ELSE <<At("data-testid", <<"primaryColumn">>)>>,
                   ProfileTerm(l) \o [i \in 1..Len(vs) |-> TweetTerm(vs[i])]) >>) >>) >>]

V(author, href, body) == [author |-> author, href |-> href, body |-> body]

\* the bodies with a wrong number of children, up to MaxKids
WrongBodies ==
  { SubSeq(<<"textPlain", "footer">>, 1, k) : k \in 0..2 }
  \cup { <<"ctxOther", "textPlain", "embedEmpty">> \o [i \in 1..(k - 3) |-> "footer"] :
           k \in 5..MaxKids }

\* the tweets a one-tweet page is drawn from
RichTweets ==
  { V(a, "relative", <<t, e, "footer">>) :
      a \in {Owner, "other"},
      t \in {"textPlain", "textLines", "textLinks", "textUserLink", "textEmoji",
             "textHandles", "textEmpty"},
      e \in {"embedEmpty"} }
  \cup { V(a, "absolute", <<"textPlain", e, "footer">>) :
      a \in {Owner, "other"},
      e \in {"embedVideo", "embedBlob", "embedQuote", "embedQuoteEmoji", "embedCard"} }
  \cup { V(Owner, "relative", <<t, e, "footer">>) :
      t \in {"textLines", "textUserLink", "textEmoji"},
      e \in {"embedVideo", "embedBlob", "embedQuote"} }
  \cup { V(a, "relative", <<c, t, "embedEmpty", "footer">>) :
      a \in {Owner, "other"},
      c \in {"ctxSelf", "ctxOther", "ctxBoth", "ctxNone"},
      t \in {"textPlain", "textHandles"} }
  \cup { V(a, "relative", b) : a \in {Owner, "other"}, b \in WrongBodies \cup {<<"none">>} }
  \cup { V(Owner, h, <<"textPlain", "embedEmpty", "footer">>) :
      h \in {"notNumber", "zero", "empty", "zeros", "negative", "maxInt64", "minInt64",
             "uint64"} }

\* the tweets a page of several tweets is drawn from
PlainTweets ==
  { V(Owner, "relative", <<"textLines", "embedEmpty", "footer">>),
    V("other", "absolute", <<"ctxSelf", "textLinks", "embedVideo", "footer">>),
    V(Owner, "relative", <<"ctxOther", "textPlain", "embedEmpty", "footer", "footer">>),
    V("other", "notNumber", <<"textPlain", "embedEmpty", "footer">>) }

RECURSIVE SeqsOf(_, _)
SeqsOf(S, k) ==
  IF k = 0 THEN { <<>> }
  ELSE { Append(q, x) : q \in SeqsOf(S, k - 1), x \in S }

Pages ==
  { <<v>> : v \in RichTweets }
  \cup UNION { SeqsOf(PlainTweets, k) : k \in 0..MaxTweets }

\* the shapes of the profile region: complete; without the primary column;
\* without a text node starting with "@"; the handle block without a previous
\* sibling; the name block without text; the handle's text node directly in
\* the column; without the avatar
Layouts == {"full", "noColumn", "noHandle", "noSibling", "emptyName", "bareHandle", "noImage"}

\* the tweets of the pages whose profile region is not complete
LayoutPages ==
  { <<>>, << V(Owner, "relative", <<"textPlain", "embedEmpty", "footer">>) >> }

\* getTimeline's locals before its loop
NoTimeline == [url |-> <<>>, seenIDs |-> {}, latestID |-> Int64Zero]

\* the fetcher of the calls that fetch nothing
NoFetcher == [forTest |-> FALSE, files |-> <<>>, web |-> <<>>, disk |-> "ok", log |-> <<>>]

-----------------------------------------------------------------------------
(* parseTimeline and parseTweet as a state machine                         *)

NoReturn == [done |-> FALSE, tweets |-> <<>>, err |-> "", at |-> 0]

Init ==
  /\ \/ layout = "full" /\ page \in Pages
     \/ layout \in Layouts \ {"full"} /\ page \in LayoutPages
  /\ ft = NoFetcher
  /\ tl = NoTimeline
  /\ opts \in [simplify : BOOLEAN]
  /\ heap = Build(<<>>, DocTerm(layout, page))
  /\ pc = "start"
  /\ prof = NoProfile
  /\ nodes = <<>>
  /\ idx = 0
  /\ tw = NoTweet
  /\ loc = NoLocals
  /\ tweets = <<>>
  /\ ret = NoReturn
  /\ trail = <<>>
  /\ call = <<>>

\* an error return that hands back the tweets parsed before the failure
ReturnErrorPartial(err) ==
  /\ ret' = [done |-> TRUE, tweets |-> tweets, err |-> err, at |-> idx]
  /\ pc' = "done"

\* return prof, nil, err
ReturnError(err) ==
  /\ ret' = [done |-> TRUE, tweets |-> <<>>, err |-> err, at |-> idx]
  /\ pc' = "done"

\* one rewriting step of parseTweet: the heap it leaves and the next position
Step(h, name, next) ==
  /\ heap' = h
  /\ trail' = Append(trail, name)
  /\ pc' = IF IsPanic(h) THEN "panicked" ELSE next

\* parseTimeline, lines 73-78, for the result pp of parseProfile
BeginTweets(col, pp) ==
  /\ prof' = pp.pr
  /\ IF pp.err # ""
       THEN /\ ReturnError("failed parsing profile")
            /\ UNCHANGED <<nodes, idx>>
       ELSE /\ nodes' = findNodes(heap, col,
                          MF("div", << <<"data-testid", "=", "tweet">> >>))
            /\ idx' = 1
            /\ pc' = "loop"
            /\ UNCHANGED ret

\* parseTimeline, lines 68-78, for the primary column col found
BeginColumn(col) ==
  IF col = nil
    THEN /\ ReturnError("didn't find primary column")
         /\ UNCHANGED <<prof, nodes, idx>>
    ELSE BeginTweets(col, parseProfile(heap, col))

\* parseTimeline, lines 62-78: the primary column, the profile, the tweet divs
Begin ==
  /\ pc = "start"
  /\ BeginColumn(findFirstNode(heap, 1,
                   MF("div", << <<"data-testid", "=", "primaryColumn">> >>)))
  /\ UNCHANGED <<call, tl, layout, ft, page, heap, opts, tw, loc, tweets, trail>>

\* the head of parseTimeline's loop: the next tweet div
NextTweet ==
  /\ pc = "loop"
  /\ idx <= Len(nodes)
  /\ pc' = "fixEmoji"
  /\ tw' = NoTweet
  /\ loc' = NoLocals
  /\ trail' = <<>>
  /\ UNCHANGED <<call, tl, layout, ft, page, heap, opts, prof, nodes, idx, tweets, ret>>

\* return prof, tweets, nil
Return ==
  /\ pc = "loop"
  /\ idx > Len(nodes)
  /\ ret' = [done |-> TRUE, tweets |-> tweets, err |-> "", at |-> 0]
  /\ pc' = "done"
  /\ UNCHANGED <<call, tl, layout, ft, page, heap, opts, prof, nodes, idx, tw, loc, tweets, trail>>

\* parseTweet, lines 134-138, for the right column main
FixEmojiMain(main) ==
  /\ Step(fixEmoji(heap, main), "fixEmoji", "header")
  /\ loc' = [loc EXCEPT !.main = main]
  /\ UNCHANGED ret

\* parseTweet, lines 130-138
FixEmoji ==
  /\ pc = "fixEmoji"
  /\ IF heap[nodes[idx]].FirstChild = nil
        \/ heap[heap[nodes[idx]].FirstChild].NextSibling = nil
       THEN /\ ReturnError("no right column")
            /\ UNCHANGED <<heap, loc, trail>>
       ELSE FixEmojiMain(heap[heap[nodes[idx]].FirstChild].NextSibling)
  /\ UNCHANGED <<call, tl, layout, ft, page, opts, prof, nodes, idx, tw, tweets>>

\* parseTweet, lines 140-216, for the result r of the header steps
HeaderResult(r) ==
  /\ tw' = r.tw
  /\ loc' = r.loc
  /\ IF r.err # "" THEN ReturnError(r.err) ELSE pc' = "content" /\ UNCHANGED ret

\* parseTweet, lines 140-216
Header ==
  /\ pc = "header"
  /\ HeaderResult(parseTweetHeader(heap, nodes[idx]))
  /\ UNCHANGED <<call, tl, layout, ft, page, heap, opts, prof, nodes, idx, tweets, trail>>

\* parseTweet, lines 237-240, for the heap and the content div b of lines 217-235
ContentResult(b) ==
  /\ loc' = [loc EXCEPT !.content = b.content]
  /\ IF IsPanic(b.h) THEN Step(b.h, "content", "panicked")
     ELSE IF b.h[loc.embed].FirstChild # nil
       THEN Step(detachEmbed(b.h, [loc EXCEPT !.content = b.content]), "content", "quote")
       ELSE Step(b.h, "content", "fixVideos")

\* parseTweet, lines 217-240
Content ==
  /\ pc = "content"
  /\ ContentResult(buildContent(heap, tw, loc, prof.User))
  /\ UNCHANGED <<call, tl, layout, ft, page, opts, prof, nodes, idx, tw, tweets, ret>>

\* parseTweet, line 241
QuoteTweetHeader ==
  /\ pc = "quote"
  /\ Step(improveQuoteTweetHeader(heap, loc.embed), "improveQuoteTweetHeader", "card")
  /\ UNCHANGED <<call, tl, layout, ft, page, opts, prof, nodes, idx, tw, loc, tweets, ret>>

\* parseTweet, lines 242-243
LinkCard ==
  /\ pc = "card"
  /\ Step(AppendChild(improveLinkCard(heap, loc.embed), loc.content, loc.embed),
          "improveLinkCard", "fixVideos")
  /\ UNCHANGED <<call, tl, layout, ft, page, opts, prof, nodes, idx, tw, loc, tweets, ret>>

\* parseTweet, line 246
FixVideos ==
  /\ pc = "fixVideos"
  /\ Step(fixVideos(heap, loc.content), "fixVideos", "links")
  /\ UNCHANGED <<call, tl, layout, ft, page, opts, prof, nodes, idx, tw, loc, tweets, ret>>

\* parseTweet, line 247
RewriteRelativeLinks ==
  /\ pc = "links"
  /\ Step(rewriteRelativeLinks(heap, loc.content), "rewriteRelativeLinks", "userLinks")
  /\ UNCHANGED <<call, tl, layout, ft, page, opts, prof, nodes, idx, tw, loc, tweets, ret>>

\* parseTweet, line 248
InlineUserLinks ==
  /\ pc = "userLinks"
  /\ Step(inlineUserLinks(heap, loc.content), "inlineUserLinks", "lineBreaks")
  /\ UNCHANGED <<call, tl, layout, ft, page, opts, prof, nodes, idx, tw, loc, tweets, ret>>

\* parseTweet, line 249
AddLineBreaks ==
  /\ pc = "lineBreaks"
  /\ Step(addLineBreaks(heap, loc.content), "addLineBreaks", "strip")
  /\ UNCHANGED <<call, tl, layout, ft, page, opts, prof, nodes, idx, tw, loc, tweets, ret>>

\* parseTweet, lines 251-255: the attribute stripping
stripAttributes(h, content, o) ==
  LET h1 == deleteAttr(h, content, "class")
  IN  IF o.simplify THEN simplifyContent(h1, content) ELSE h1

\* a parseTweet that strips the attributes before it looks for the link card
StripAttributesThenCard ==
  /\ pc = "strip"
  /\ Step(stripAttributes(heap, loc.content, opts), "stripAttributes",
          IF Len(trail) < 9 THEN "card" ELSE "render")
  /\ UNCHANGED <<call, tl, layout, ft, page, opts, prof, nodes, idx, tw, loc, tweets, ret>>

\* parseTweet, lines 251-255
StripAttributes ==
  /\ pc = "strip"
  /\ Step(stripAttributes(heap, loc.content, opts), "stripAttributes", "render")
  /\ UNCHANGED <<call, tl, layout, ft, page, opts, prof, nodes, idx, tw, loc, tweets, ret>>

\* parseTweet, lines 257-264, and parseTimeline's append
Render_ ==
  /\ pc = "render"
  /\ tw' = [tw EXCEPT !.Content = <<Render(heap, loc.content)>>,
                       !.Text = getTextSpaced(heap, loc.content)]
  /\ tweets' = Append(tweets, tw')
  /\ idx' = idx + 1
  /\ pc' = "loop"
  /\ UNCHANGED <<call, tl, layout, ft, page, heap, opts, prof, nodes, loc, ret, trail>>

Next ==
  \/ Begin
  \/ NextTweet
  \/ Return
  \/ FixEmoji
  \/ Header
  \/ Content
  \/ QuoteTweetHeader
  \/ LinkCard
  \/ FixVideos
  \/ RewriteRelativeLinks
  \/ InlineUserLinks
  \/ AddLineBreaks
  \/ StripAttributes
  \/ Render_

Spec == Init /\ [][Next]_vars

-----------------------------------------------------------------------------
(* findNodes on arbitrary small trees                                      *)

\* the largest number of nodes of a tree findNodes is called on
MaxNodes == 4

RECURSIVE Attach(_, _, _)
Attach(h, p, i) ==
  IF i > Len(h) \/ IsPanic(h) THEN h ELSE Attach(AppendChild(h, p[i], i), p, i + 1)

\* the trees of at most MaxNodes elements <a> and <b>: node 1 is the root, p
\* gives each node its parent, and children are appended in the order of their
\* numbers
FindTrees ==
  UNION { { Attach([i \in 1..n |-> NewNode(ElementNode, tags[i], <<>>)], p, 2) :
              p \in { q \in [1..n -> 0..n] : q[1] = 0 /\ \A i \in 2..n : q[i] \in 1..(i - 1) },
              tags \in [1..n -> {"a", "b"}] } :
          n \in 1..MaxNodes }

\* the predicates handed to findNodes: matchFunc("a"), matchFunc("b"), matchFunc("")
FindPreds == { MF("a", <<>>), MF("b", <<>>), MF("", <<>>) }

\* the state outside the DOM, for the specifications that study one call
Idle ==
  /\ page = <<>>
  /\ layout = "full"
  /\ tl = NoTimeline
  /\ opts = [simplify |-> FALSE]
  /\ prof = NoProfile
  /\ tw = NoTweet
  /\ loc = NoLocals
  /\ tweets = <<>>
  /\ ret = NoReturn
  /\ trail = <<>>

InitFind ==
  /\ Idle
  /\ ft = NoFetcher
  /\ heap \in FindTrees
  /\ pc = "find"
  /\ nodes = <<>>
  /\ idx = 0
  /\ call = <<>>

\* ns := findNodes(n, f)
FindNodes ==
  /\ pc = "find"
  /\ \E n \in 1..Len(heap), f \in FindPreds :
       /\ nodes' = findNodes(heap, n, f)
       /\ call' = [n |-> n, f |-> f]
  /\ pc' = "found"
  /\ UNCHANGED <<tl, layout, ft, page, heap, opts, prof, idx, tw, loc, tweets, ret, trail>>

\* m := findFirstNode(n, f)
FindFirstNode ==
  /\ pc = "find"
  /\ \E n \in 1..Len(heap), f \in FindPreds :
       /\ idx' = findFirstNode(heap, n, f)
       /\ call' = [n |-> n, f |-> f]
  /\ pc' = "foundFirst"
  /\ UNCHANGED <<tl, layout, ft, page, heap, opts, prof, nodes, tw, loc, tweets, ret, trail>>

NextFind == FindNodes \/ FindFirstNode

SpecFind == InitFind /\ [][NextFind]_vars

-----------------------------------------------------------------------------
(* addLineBreaks on arbitrary short texts                                  *)

\* the largest number of lexemes of a text node addLineBreaks is called on
MaxLen == 3

\* the non-empty texts of at most n lexemes over a word and the newline
RECURSIVE TextsUpTo(_)
TextsUpTo(n) ==
  IF n = 0 THEN {}
  ELSE { <<x>> : x \in {"a", "\n"} }
       \cup TextsUpTo(n - 1)
       \cup { Append(t, x) : t \in TextsUpTo(n - 1), x \in {"a", "\n"} }

\* <div><i></i>t1<span>t2</span>tail</div>
BreakTree(t1, t2) ==
  Build(<<>>, E("div", <<>>, << E("i", <<>>, <<>>), T(t1),
                               E("span", <<At("class", <<"c">>)>>, << T(t2) >>),
                               T(<<"tail">>) >>))

InitBreaks ==
  /\ Idle
  /\ ft = NoFetcher
  /\ \E t1 \in TextsUpTo(MaxLen), t2 \in TextsUpTo(MaxLen) : heap = BreakTree(t1, t2)
  /\ pc = "break"
  /\ nodes = <<>>
  /\ idx = 0
  /\ call = <<>>

\* addLineBreaks(root); call keeps the tree as it was before
Breaks ==
  /\ pc = "break"
  /\ heap' = addLineBreaks(heap, 1)
  /\ call' = <<Render(heap, 1)>>
  /\ pc' = "broken"
  /\ UNCHANGED <<tl, layout, ft, page, opts, prof, nodes, idx, tw, loc, tweets, ret, trail>>

NextBreaks == Breaks

SpecBreaks == InitBreaks /\ [][NextBreaks]_vars

-----------------------------------------------------------------------------
(* Properties of parseTimeline and parseTweet                              *)

\* the document as html.Parse left it, before any rewriting
OrigHeap == Build(<<>>, DocTerm(layout, page))

\* the body of the tweet div n: the second child of its right column
BodyOf(h, n) == h[h[h[h[n].FirstChild].NextSibling].FirstChild].NextSibling

\* the children of the body of the i-th tweet div of the page, in the heap o
BodyKids(o, i) ==
  IF BodyOf(o, nodes[i]) = nil THEN <<>> ELSE Children(o, BodyOf(o, nodes[i]))

\* the number of children of the body of the i-th tweet div of the page
BodyCount(i) == Len(BodyKids(OrigHeap, i))

\* the positions of parseTweet at which the content div exists
ContentPcs == {"quote", "card", "fixVideos", "links", "userLinks", "lineBreaks",
               "strip", "render"}

\* C1: when parseTweet fails on a tweet div, parseTimeline returns the error
\* with an empty tweet list, whatever was parsed before, and the tweet divs
\* after the failing one are never parsed: they are as html.Parse left them
C1_AllOrNothing ==
  (pc = "done" /\ ret.err # "" /\ ret.at > 0) =>
    /\ ret.tweets = <<>>
    /\ Len(tweets) = ret.at - 1
    /\ \A j \in (ret.at + 1)..Len(nodes) :
         Render(heap, nodes[j]) = Render(OrigHeap, nodes[j])

C1_Witness ==
  /\ pc = "done" /\ ret.err # ""
  /\ Len(nodes) = 3 /\ ret.at = 2 /\ Len(tweets) = 1

BannerTerm(author, href) ==
  E("b", <<>>, << E("a", <<At("href", href)>>,
                    << T(FullName(author) \o <<" ", "(", "@", author, ")">>) >>) >>)

\* C4: when a tweet's content is complete, its first child is the attribution
\* banner (a bold link to the tweet's URL reading "Name (@user)"), followed by a
\* <br> and then the text block, exactly when the tweet's author is not the
\* timeline's owner; otherwise the content begins with the text block
C4_Banner ==
  (pc = "render") =>
    IF page[idx].author # Owner
      THEN /\ heap[loc.content].FirstChild # nil
           /\ Render(heap, heap[loc.content].FirstChild) = BannerTerm(page[idx].author, tw.Href)
           /\ HasPrefix(tw.Href, TwitterPrefix \o <<"/", page[idx].author, "/", "status">>)
           /\ heap[heap[loc.content].FirstChild].NextSibling # nil
           /\ Render(heap, heap[heap[loc.content].FirstChild].NextSibling) = E("br", <<>>, <<>>)
           /\ heap[heap[heap[loc.content].FirstChild].NextSibling].NextSibling = loc.text
      ELSE heap[loc.content].FirstChild = loc.text

C4_Witness == pc = "render" /\ page[idx].author # Owner /\ Len(tweets) = 1

\* C5: a tweet whose reply context names only the tweet's own author has an
\* empty ReplyUsers list
C5_SelfReplyEmpty ==
  \A i \in 1..Len(tweets) :
    (Len(page[i].body) = 4 /\ page[i].body[1] = "ctxSelf") => tweets[i].ReplyUsers = <<>>

\* the handles named by a reply-context block
CtxHandles(name, author) ==
  CASE name = "ctxSelf"  -> << <<author>> >>
    [] name = "ctxOther" -> << <<"third">> >>
    [] name = "ctxBoth"  -> << <<author>>, <<"third">> >>
    [] OTHER             -> <<>>

\* C6: a tweet parsed from a 3-child body has no ReplyUsers, and the ReplyUsers
\* of a tweet parsed from a 4-child body are the handles of the body's first
\* child, in order: none comes from the text, the embed or the footer
C6_ReplyUsers ==
  \A i \in 1..Len(tweets) :
    tweets[i].ReplyUsers =
      IF Len(page[i].body) = 4 THEN CtxHandles(page[i].body[1], page[i].author) ELSE <<>>

C6_Witness ==
  \E i \in 1..Len(tweets) :
    /\ page[i].body = <<"textHandles", "embedEmpty", "footer">>
    /\ tweets[i].ReplyUsers = <<>>

\* no node of the rendered tree t carries one of the attributes keys
RECURSIVE NoAttr(_, _)
NoAttr(t, keys) ==
  /\ \A i \in 1..Len(t.Attr) : t.Attr[i].Key \notin keys
  /\ \A k \in 1..Len(t.Kids) : NoAttr(t.Kids[k], keys)

\* the attribute keys under the rendered tree t
RECURSIVE AttrKeys(_)
AttrKeys(t) ==
  { t.Attr[i].Key : i \in 1..Len(t.Attr) }
  \cup UNION { AttrKeys(t.Kids[k]) : k \in 1..Len(t.Kids) }

\* C7: in simplify mode no node of a parsed tweet's content, at any depth,
\* carries a class or a style attribute
C7_NoClassStyle ==
  opts.simplify =>
    \A i \in 1..Len(tweets) : NoAttr(tweets[i].Content[1], {"class", "style"})

C7_Witness ==
  /\ opts.simplify
  /\ \E i \in 1..Len(tweets) :
       /\ page[i].author # Owner
       /\ page[i].body[1] = "textUserLink"
       /\ "href" \in AttrKeys(tweets[i].Content[1])

\* the anchors of the rendered tree t all have an href beginning with a scheme
\* and a host
RECURSIVE AnchorsAbsolute(_)
AnchorsAbsolute(t) ==
  /\ (t.Type = ElementNode /\ t.Data = "a") =>
       \A i \in 1..Len(t.Attr) :
         t.Attr[i].Key = "href" =>
           \/ HasPrefix(t.Attr[i].Val, <<"https", ":", "/", "/">>)
           \/ HasPrefix(t.Attr[i].Val, <<"http", ":", "/", "/">>)
  /\ \A k \in 1..Len(t.Kids) : AnchorsAbsolute(t.Kids[k])

\* C10: every anchor in the content of a parsed tweet has an absolute href,
\* the empty href included
C10_AnchorsAbsolute ==
  \A i \in 1..Len(tweets) : AnchorsAbsolute(tweets[i].Content[1])

-----------------------------------------------------------------------------
(* Properties of findNodes and addLineBreaks                               *)

\* the nodes of the tree rooted at n, in depth-first pre-order
RECURSIVE PreOrder(_, _)
PreOrder(h, n) ==
  LET RECURSIVE from(_)
      from(c) == IF c = nil THEN <<>> ELSE PreOrder(h, c) \o from(h[c].NextSibling)
  IN  <<n>> \o from(h[n].FirstChild)

\* the proper ancestors of x
RECURSIVE ProperAncestors(_, _)
ProperAncestors(h, x) ==
  IF h[x].Parent = nil THEN {}
  ELSE {h[x].Parent} \cup ProperAncestors(h, h[x].Parent)

\* the nodes under n, n included
Subtree(h, n) == { PreOrder(h, n)[i] : i \in 1..Len(PreOrder(h, n)) }

\* the matches in the tree rooted at n that lie under no other match of the tree
TopMatches(h, n, f) ==
  SelectSeq(PreOrder(h, n),
            LAMBDA x : /\ Match(h, x, f)
                       /\ \A a \in ProperAncestors(h, x) \cap Subtree(h, n) : ~Match(h, a, f))

\* C3: findNodes returns, in depth-first pre-order, the matching nodes that
\* have no matching ancestor in the tree searched, so that no returned node is
\* a descendant of another one, even where the descendant matches too
C3_PrunedPreOrder ==
  (pc = "found") =>
    /\ nodes = TopMatches(heap, call.n, call.f)
    /\ \A i, j \in 1..Len(nodes) : nodes[i] \notin ProperAncestors(heap, nodes[j])

C3_Witness ==
  /\ pc = "found"
  /\ Len(nodes) >= 2
  /\ \E i \in 1..Len(nodes), x \in 1..Len(heap) :
       nodes[i] \in ProperAncestors(heap, x) /\ Match(heap, x, call.f)

\* the nodes a text node of data d becomes: every newline a <br> followed by
\* the text "\n", and the non-empty runs between newlines texts of their own;
\* acc is the run read so far
RECURSIVE BreakText(_, _)
BreakText(d, acc) ==
  IF d = <<>> THEN (IF acc = <<>> THEN <<>> ELSE << T(acc) >>)
  ELSE IF d[1] = "\n"
    THEN (IF acc = <<>> THEN <<>> ELSE << T(acc) >>)
         \o << E("br", <<>>, <<>>), T(<<"\n">>) >> \o BreakText(Tail(d), <<>>)
  ELSE BreakText(Tail(d), Append(acc, d[1]))

\* the rendered tree t with the line breaks of its text nodes made explicit
RECURSIVE ExpandBreaks(_)
ExpandBreaks(t) ==
  LET RECURSIVE kids(_)
      kids(ks) ==
        IF ks = <<>> THEN <<>>
        ELSE (IF Head(ks).Type = TextNode /\ \E i \in 1..Len(Head(ks).Data) : Head(ks).Data[i] = "\n"
                THEN BreakText(Head(ks).Data, <<>>)
                ELSE << ExpandBreaks(Head(ks)) >>) \o kids(Tail(ks))
  IN  [t EXCEPT !.Kids = kids(t.Kids)]

\* C9: addLineBreaks turns every newline of a text node into a <br> element
\* followed by a text node "\n", keeps the non-empty segments between newlines
\* as text nodes in their order and at the node's place among its siblings, and
\* leaves the texts without a newline and the elements as they were
C9_LineBreaks == (pc = "broken") => Render(heap, 1) = ExpandBreaks(call[1])

C9_Witness ==
  /\ pc = "broken"
  /\ call[1].Kids[2].Data = <<"\n", "a", "\n">>
  /\ call[1].Kids[3].Kids[1].Data = <<"a", "\n", "\n">>
  /\ Len(Render(heap, 1).Kids) = 8

-----------------------------------------------------------------------------
(* The rewriting steps of parseTweet run again on the content they left    *)

\* parseTweet, lines 246-255, on the content tree c
Rewrite(h, c, o) ==
  stripAttributes(addLineBreaks(inlineUserLinks(rewriteRelativeLinks(
    fixVideos(h, c), c), c), c), c, o)

\* rewriteRelativeLinks and the attribute stripping alone, on the content tree c
RelinkAndStrip(h, c, o) == stripAttributes(rewriteRelativeLinks(h, c), c, o)

\* the rendered tree t with one more "controls" on every video whose src is
\* not a blob; a video's own children are left alone
RECURSIVE MoreControls(_)
MoreControls(t) ==
  IF t.Type = ElementNode /\ t.Data = "video"
    THEN (IF HasPrefix(AttrVal(t.Attr, "src"), <<"blob", ":">>) THEN t
          ELSE [t EXCEPT !.Attr = Append(@, [Key |-> "controls", Val |-> <<>>])])
    ELSE [t EXCEPT !.Kids = [i \in 1..Len(t.Kids) |-> MoreControls(t.Kids[i])]]

\* the rendered tree t with one more <br> before every text node that holds
\* a newline, all of which are the text "\n" once addLineBreaks has run
RECURSIVE MoreBreaks(_)
MoreBreaks(t) ==
  LET RECURSIVE kids(_)
      kids(ks) ==
        IF ks = <<>> THEN <<>>
        ELSE (IF Head(ks) = T(<<"\n">>)
                THEN << E("br", <<>>, <<>>), T(<<"\n">>) >>
                ELSE << MoreBreaks(Head(ks)) >>) \o kids(Tail(ks))
  IN  [t EXCEPT !.Kids = kids(t.Kids)]

IsPlayableVideo(t) ==
  /\ t.Type = ElementNode /\ t.Data = "video"
  /\ ~HasPrefix(AttrVal(t.Attr, "src"), <<"blob", ":">>)

\* the number of playable videos in the rendered tree t
RECURSIVE CountVideos(_)
CountVideos(t) ==
  LET RECURSIVE sum(_)
      sum(ks) == IF ks = <<>> THEN 0 ELSE CountVideos(Head(ks)) + sum(Tail(ks))
  IN  (IF IsPlayableVideo(t) THEN 1 ELSE 0) + sum(t.Kids)

\* the number of "\n" text nodes in the rendered tree t
RECURSIVE CountNewlines(_)
CountNewlines(t) ==
  LET RECURSIVE sum(_)
      sum(ks) == IF ks = <<>> THEN 0 ELSE CountNewlines(Head(ks)) + sum(Tail(ks))
  IN  (IF t = T(<<"\n">>) THEN 1 ELSE 0) + sum(t.Kids)

\* C8 as stated: running the rewriting steps (video cleanup, link
\* absolutization, user-link flattening, line-break materialization, attribute
\* stripping) again on a rewritten and simplified content tree leaves the tree
\* unchanged
C8_Idempotent ==
  (pc = "render" /\ opts.simplify) =>
    Render(Rewrite(heap, loc.content, opts), loc.content) = Render(heap, loc.content)

\* C8 amended: on a rewritten and simplified content tree, link absolutization
\* and attribute stripping leave the tree unchanged, while video cleanup
\* appends one more "controls" attribute to every video that is not a blob and
\* line-break materialization inserts one more <br> before every "\n" text node
C8_SecondPass ==
  (pc = "render" /\ opts.simplify) =>
    /\ Render(RelinkAndStrip(heap, loc.content, opts), loc.content)
         = Render(heap, loc.content)
    /\ Render(fixVideos(heap, loc.content), loc.content)
         = MoreControls(Render(heap, loc.content))
    /\ Render(addLineBreaks(heap, loc.content), loc.content)
         = MoreBreaks(Render(heap, loc.content))

C8_Witness ==
  /\ pc = "render" /\ opts.simplify
  /\ CountVideos(Render(heap, loc.content)) > 0
  /\ CountNewlines(Render(heap, loc.content)) > 2
  /\ \E i \in 1..Len(heap) : isElement(heap, i, "a") /\ HasPrefix(getAttr(heap, i, "href"), <<"https", ":">>)
  /\ Render(Rewrite(heap, loc.content, opts), loc.content) # Render(heap, loc.content)

-----------------------------------------------------------------------------
(* The tweet's id                                                          *)

\* the tweet of the page that parseTweet is working on, or has failed on
Current ==
  IF pc \notin {"start", "loop"} /\ idx \in 1..Len(page) THEN page[idx]
  ELSE V(Owner, "empty", <<>>)

\* <digits>: the lexemes after the last "/" of the canonical link of v
LinkDigits(v) ==
  LET s == Href(v.href, v.author)
      k == IF \E i \in 1..Len(s) : s[i] = "/"
             THEN CHOOSE i \in 1..Len(s) : s[i] = "/" /\ \A j \in (i + 1)..Len(s) : s[j] # "/"
             ELSE 0
  IN  SubSeq(s, k + 1, Len(s))

IsDigitString(d) == d # <<>> /\ \A i \in 1..Len(d) : \E k \in 1..10 : Digits[k] = d[i]

\* the integer a digit string writes, as the decimal numeral without
\* leading zeros
Written(d) ==
  IF \A i \in 1..Len(d) : d[i] = "0" THEN <<"0">>
  ELSE SubSeq(d, CHOOSE i \in 1..Len(d) : d[i] # "0" /\ \A j \in 1..(i - 1) : d[j] = "0", Len(d))

\* C11: for a tweet whose canonical link is .../status/<digits>, parseTweet
\* extracts exactly the integer written by <digits> as the tweet's ID, for
\* every digit string, the ones beyond the signed 64-bit range included
C11_ExactID ==
  (tw.Href # <<>> /\ IsDigitString(LinkDigits(Current))) =>
    /\ tw.ID = [neg |-> FALSE, digits |-> Written(LinkDigits(Current))]
    /\ ret.err # "failed parsing ID"

\* C11 as amended: the digit strings whose value fits a signed 64-bit integer
\* are extracted exactly, and on every other digit string parseTweet fails
\* with "failed parsing ID" and parseTimeline returns no tweets
C11_FitsOrFails ==
  (tw.Href # <<>> /\ IsDigitString(LinkDigits(Current))) =>
    IF NumGreater(Written(LinkDigits(Current)), Int64Limit(FALSE))
      THEN pc = "done" /\ ret.err = "failed parsing ID" /\ ret.tweets = <<>>
      ELSE /\ tw.ID = [neg |-> FALSE, digits |-> Written(LinkDigits(Current))]
           /\ ret.err # "failed parsing ID"

\* one link of each kind has been through parseTweet: math.MaxInt64, a number
\* with leading zeros, and a number beyond the range
C11_Witness ==
  /\ pc = "done" /\ tw.Href # <<>>
  /\ \/ ret.err = "" /\ tw.ID.digits = Int64Limit(FALSE)
     \/ ret.err = "" /\ Current.href = "zeros" /\ tw.ID.digits = <<"7">>
     \/ ret.err = "failed parsing ID" /\ Len(LinkDigits(Current)) = 20

\* C12: every tweet a successful parseTimeline returns has a strictly
\* positive ID, and a canonical link whose last component is zero, negative
\* or not a number never yields a returned tweet
C12_PositiveID ==
  (pc = "done" /\ ret.err = "") =>
    \A i \in 1..Len(ret.tweets) :
      /\ ~ret.tweets[i].ID.neg /\ ret.tweets[i].ID.digits # <<"0">>
      /\ IsDigitString(LinkDigits(page[i])) /\ Written(LinkDigits(page[i])) # <<"0">>

-----------------------------------------------------------------------------
(* The legacy parser's parseTime.  A time.Duration is an int64 of           *)
(* nanoseconds, kept as [neg, digits] like every int64 here, and its        *)
(* arithmetic is done on the decimal digits so that it keeps its 64 bits.   *)

\* the value of a digit
DigitOf(c) == (CHOOSE k \in 1..10 : Digits[k] = c) - 1

\* the decimal digits of a natural number
RECURSIVE NatDigits(_)
NatDigits(n) ==
  IF n < 10 THEN <<Digits[n + 1]>> ELSE Append(NatDigits(n \div 10), Digits[(n % 10) + 1])

\* d * k for a numeral d and a small factor k, with the carry c
RECURSIVE MulFrom(_, _, _)
MulFrom(d, k, c) ==
  IF d = <<>> THEN NatDigits(c)
  ELSE Append(MulFrom(SubSeq(d, 1, Len(d) - 1), k, (DigitOf(d[Len(d)]) * k + c) \div 10),
              Digits[((DigitOf(d[Len(d)]) * k + c) % 10) + 1])

\* a - b for numerals a >= b, with the borrow c
RECURSIVE SubFrom(_, _, _)
SubFrom(a, b, c) ==
  IF a = <<>> \/ (b = <<>> /\ c = 0) THEN a
  ELSE Append(SubFrom(SubSeq(a, 1, Len(a) - 1),
                      IF b = <<>> THEN <<>> ELSE SubSeq(b, 1, Len(b) - 1),
                      IF DigitOf(a[Len(a)]) - c < (IF b = <<>> THEN 0 ELSE DigitOf(b[Len(b)]))
                        THEN 1 ELSE 0),
              Digits[((DigitOf(a[Len(a)]) - c + 10
                        - (IF b = <<>> THEN 0 ELSE DigitOf(b[Len(b)]))) % 10) + 1])

\* the digits of 2^64
TwoTo64 ==
  <<"1", "8", "4", "4", "6", "7", "4", "4", "0", "7", "3", "7", "0", "9", "5", "5", "1",
    "6", "1", "6">>

\* m modulo 2^64
RECURSIVE Mod64(_)
Mod64(m) ==
  IF NumGreater(TwoTo64, m) THEN m ELSE Mod64(StripZeros(SubFrom(m, TwoTo64, 0)))

\* the int64 that -m wraps to, for the numeral m of a magnitude: m is taken
\* modulo 2^64 and the result read as a two's-complement number
WrapNeg(m) ==
  LET r == Mod64(m)
  IN  IF r = <<"0">> THEN Int64Zero
      ELSE IF NumGreater(r, Int64Limit(TRUE))
        THEN [neg |-> FALSE, digits |-> StripZeros(SubFrom(TwoTo64, r, 0))]
      ELSE [neg |-> TRUE, digits |-> r]

\* the seconds in a unit: time.Second, time.Minute, time.Hour, 24 * time.Hour
UnitSeconds(u) ==
  CASE u = "s" -> 1 [] u = "m" -> 60 [] u = "h" -> 3600 [] u = "d" -> 86400

\* -1 * time.Duration(quant) * units, for the int quant >= 0: the product in
\* nanoseconds, wrapped to an int64
negDuration(quant, u) ==
  WrapNeg(StripZeros(MulFrom(quant.digits, UnitSeconds(u), 0)
                     \o <<"0", "0", "0", "0", "0", "0", "0", "0", "0">>))

\* durationRegexp.FindStringSubmatch(s) for ^(\d+)([smhd])$: the submatches,
\* or <<>> for nil
durationSubmatch(s) ==
  IF /\ Len(s) >= 2
     /\ s[Len(s)] \in {"s", "m", "h", "d"}
     /\ \A i \in 1..(Len(s) - 1) : \E k \in 1..10 : Digits[k] = s[i]
    THEN <<SubSeq(s, 1, Len(s) - 1), s[Len(s)]>>
    ELSE <<>>

\* the month names of time.Parse's "Jan" and the days of each month in the
\* year 0, a leap year
Months == <<"Jan", "Feb", "Mar", "Apr", "May", "Jun", "Jul", "Aug", "Sep", "Oct", "Nov", "Dec">>
DaysIn == <<31, 29, 31, 30, 31, 30, 31, 31, 30, 31, 30, 31>>

\* the zero time.Time, and the date y-m-d at hh:mm UTC
ZeroTime == [year |-> 1, month |-> 1, day |-> 1, hour |-> 0, min |-> 0, plus |-> Int64Zero]
Date(y, m, d, hh, mm) ==
  [year |-> y, month |-> m, day |-> d, hour |-> hh, min |-> mm, plus |-> Int64Zero]

\* time.Parse("Jan 2", s): [err, t].  The month name, then a space and any
\* further spaces, then a day of one or two digits that the month has in the
\* year 0, and nothing else
timeParse(s) ==
  LET k == IF \E i \in 2..Len(s) : s[i] # " "
             THEN CHOOSE i \in 2..Len(s) : s[i] # " " /\ \A j \in 2..(i - 1) : s[j] = " "
             ELSE 0
      d == IF k = 0 THEN <<>> ELSE SubSeq(s, k, Len(s))
      m == IF s # <<>> /\ \E i \in 1..12 : Months[i] = s[1]
             THEN CHOOSE i \in 1..12 : Months[i] = s[1] ELSE 0
      day == IF Len(d) = 1 THEN DigitOf(d[1]) ELSE 10 * DigitOf(d[1]) + DigitOf(d[2])
  IN  IF /\ m # 0 /\ k > 2 /\ Len(d) \in {1, 2}
         /\ \A i \in 1..Len(d) : \E j \in 1..10 : Digits[j] = d[i]
         /\ day >= 1 /\ day <= DaysIn[m]
        THEN [err |-> "", t |-> Date(0, m, day, 0, 0)]
        ELSE [err |-> "parsing time", t |-> ZeroTime]

\* now.Add(d) for a time now that has nothing added yet
Add(now, d) == [now EXCEPT !.plus = d]

\* parseTime, lines 1356-1374, for the submatches ms and quant, err of Atoi
parseDuration(ms, quant, now) ==
  IF quant.err THEN [err |-> "bad quantity", t |-> ZeroTime]
  ELSE [err |-> "", t |-> Add(now, negDuration(quant.val, ms[2]))]

\* parseTime, lines 1377-1381, for the result r of time.Parse
parseDate(r) ==
  IF r.err = "" THEN r ELSE [err |-> "unknown format", t |-> ZeroTime]

\* parseTime: [err, t]
parseTime(s, now) ==
  IF durationSubmatch(s) # <<>>
    THEN parseDuration(durationSubmatch(s), ParseInt(durationSubmatch(s)[1]), now)
    ELSE parseDate(timeParse(s))

-----------------------------------------------------------------------------
(* The fetcher.  ft.files is the cache directory: for each URL the file     *)
(* filepath.Join(cacheDir, url.PathEscape(u)) is absent, unreadable or      *)
(* holds bytes.  ft.web is what the network would answer a GET of each URL  *)
(* with, ft.disk whether ioutil.WriteFile succeeds, and ft.log the GETs     *)
(* sent and the cache files written and removed, in order.                  *)

Absent == [kind |-> "absent", b |-> ""]
Unreadable == [kind |-> "unreadable", b |-> ""]
File(b) == [kind |-> "file", b |-> b]

\* the answers of the network: no connection, a status other than 200, a 200
\* whose body cannot be read, a 200 with the body b; and a URL that
\* http.NewRequest rejects
NoAnswer == [kind |-> "error", b |-> ""]
NotFound == [kind |-> "status404", b |-> ""]
Truncated == [kind |-> "readError", b |-> ""]
OK(b) == [kind |-> "status200", b |-> b]
BadRequest == [kind |-> "badRequest", b |-> ""]

\* f[u], or d where f has no u
At_(f, u, d) == IF u \in DOMAIN f THEN f[u] ELSE d

\* fetch, lines 155-161: the body b has been read
store(f, u, useCache, b) ==
  IF ~useCache THEN [ft |-> f, b |-> b, err |-> ""]
  ELSE IF f.disk # "ok"
    THEN [ft |-> [f EXCEPT !.files = [x \in DOMAIN f.files \cup {u} |->
                                        IF x = u THEN Absent ELSE f.files[x]],
                           !.log = Append(@, [op |-> "remove", u |-> u])],
          b |-> "", err |-> "write failed"]
  ELSE [ft |-> [f EXCEPT !.files = [x \in DOMAIN f.files \cup {u} |->
                                      IF x = u THEN File(b) ELSE f.files[x]],
                         !.log = Append(@, [op |-> "write", u |-> u])],
        b |-> b, err |-> ""]

\* fetch, lines 136-161, for the answer r of the network
download(f, u, useCache, r) ==
  IF r.kind = "badRequest" THEN [ft |-> f, b |-> "", err |-> "bad request"]
  ELSE IF r.kind # "status200"
    THEN [ft |-> [f EXCEPT !.log = Append(@, [op |-> "get", u |-> u])], b |-> "",
          err |-> IF r.kind = "error" THEN "get failed"
                  ELSE IF r.kind = "readError" THEN "read failed" ELSE "server returned"]
  ELSE store([f EXCEPT !.log = Append(@, [op |-> "get", u |-> u])], u, useCache, r.b)

\* a fetch that goes to the network whatever forTest says
fetchFromNetwork(f, u, useCache) ==
  IF useCache /\ At_(f.files, u, Absent).kind = "file"
    THEN [ft |-> f, b |-> f.files[u].b, err |-> ""]
  ELSE IF useCache /\ At_(f.files, u, Absent).kind = "unreadable"
    THEN [ft |-> f, b |-> "", err |-> "read failed"]
  ELSE download(f, u, useCache, At_(f.web, u, NoAnswer))

\* (*fetcher).fetch: [ft, b, err]
fetch(f, u, useCache) ==
  IF (useCache \/ f.forTest) /\ At_(f.files, u, Absent).kind = "file"
    THEN [ft |-> f, b |-> f.files[u].b, err |-> ""]
  ELSE IF (useCache \/ f.forTest) /\ At_(f.files, u, Absent).kind = "unreadable"
    THEN [ft |-> f, b |-> "", err |-> "read failed"]
  ELSE IF f.forTest THEN [ft |-> f, b |-> "", err |-> "not using network"]
  ELSE download(f, u, useCache, At_(f.web, u, NoAnswer))

\* the largest number of fetch calls in a run
MaxCalls == 3

FetchURLs == { <<"https", ":", "/", "/", "twitter.com", "/", "a">>,
               <<"https", ":", "/", "/", "twitter.com", "/", "b">> }

Answers == {NoAnswer, NotFound, Truncated, OK("new"), BadRequest}

InitFetch ==
  /\ Idle
  /\ ft \in [forTest : BOOLEAN,
             files : [FetchURLs -> {Absent, Unreadable, File("old")}],
             web : {[u \in FetchURLs |-> NoAnswer]},
             disk : {"ok"},
             log : {<<>>}]
  /\ heap = <<>>
  /\ pc = "fetch"
  /\ nodes = <<>>
  /\ idx = 0
  /\ call = <<>>

\* b, err := ft.fetch(u, useCache), for the result r
Fetched(u, useCache, r) ==
  /\ ft' = r.ft
  /\ ret' = [b |-> r.b, err |-> r.err]
  /\ call' = [u |-> u, useCache |-> useCache]
  /\ idx' = idx + 1

\* one call of fetch, with the answer a the network has for u and the state d
\* of the disk at that moment
Fetch ==
  /\ pc = "fetch"
  /\ idx < MaxCalls
  /\ \E u \in FetchURLs, useCache \in BOOLEAN, a \in Answers, d \in {"ok", "full"} :
       Fetched(u, useCache,
               fetch([ft EXCEPT !.web = [x \in FetchURLs |-> IF x = u THEN a ELSE NoAnswer],
                                !.disk = d], u, useCache))
  /\ UNCHANGED <<tl, layout, page, heap, pc, opts, prof, nodes, tw, loc, tweets, trail>>

NextFetch == Fetch

SpecFetch == InitFetch /\ [][NextFetch]_vars

\* the log entries the step has added
Logged == SubSeq(ft'.log, Len(ft.log) + 1, Len(ft'.log))

\* C20: a call of fetch sends a GET, and only for the URL asked for, only when
\* forTest is false and either useCache is false or the URL has no cache
\* file; it writes a cache file only after a 200 answer with useCache true;
\* with forTest set it sends nothing and leaves the cache as it is, and
\* returns the cached bytes or an error
C20_NetworkAndCache ==
  [][idx' = idx + 1 =>
       /\ \A i \in 1..Len(Logged) :
            /\ Logged[i].u = call'.u
            /\ ~ft.forTest
            /\ ~call'.useCache \/ ft.files[call'.u] = Absent
            /\ Logged[i].op = "write" =>
                 /\ call'.useCache /\ ft'.web[call'.u].kind = "status200"
                 /\ i > 1 /\ Logged[i - 1].op = "get"
       /\ ft'.files # ft.files => \E i \in 1..Len(Logged) : Logged[i].op \in {"write", "remove"}
       /\ ft.forTest =>
            /\ Logged = <<>> /\ ft'.files = ft.files
            /\ \/ ret'.err # ""
               \/ ft.files[call'.u].kind = "file" /\ ret'.b = ft.files[call'.u].b]_vars

\* a first call has fetched a page and cached it, and a second call has
\* returned it from the cache without a GET
C20_Witness ==
  /\ idx = 2 /\ ~ft.forTest
  /\ Len(ft.log) = 2 /\ ft.log[1].op = "get" /\ ft.log[2].op = "write"
  /\ call.useCache /\ ft.log[2].u = call.u /\ ret = [b |-> "new", err |-> ""]

-----------------------------------------------------------------------------
(* Calls of parseTime.  call.s is the text of the timestamp and call.now    *)
(* the time the caller passes, a date and time of day in UTC.               *)

\* the texts a timestamp cell may hold
TimeTexts ==
  { <<"0", "s">>,
    <<"1", "s">>,
    <<"5", "s">>,
    <<"5", "9", "s">>,
    <<"0", "0", "7", "m">>,
    <<"1", "m">>,
    <<"2", "m">>,
    <<"2", "3", "m">>,
    <<"1", "h">>,
    <<"2", "h">>,
    <<"2", "3", "h">>,
    <<"1", "d">>,
    <<"2", "d">>,
    <<"7", "d">>,
    <<"9", "2", "2", "3", "3", "7", "2", "0", "3", "6", "s">>,
    <<"9", "2", "2", "3", "3", "7", "2", "0", "3", "7", "s">>,
    <<"1", "8", "4", "4", "6", "7", "4", "4", "0", "7", "4", "s">>,
    <<"1", "5", "3", "7", "2", "2", "8", "6", "7", "m">>,
    <<"1", "5", "3", "7", "2", "2", "8", "6", "8", "m">>,
    <<"2", "5", "6", "2", "0", "4", "7", "h">>,
    <<"2", "5", "6", "2", "0", "4", "8", "h">>,
    <<"1", "0", "6", "7", "5", "1", "d">>,
    <<"1", "0", "6", "7", "5", "2", "d">>,
    <<"9", "9", "9", "9", "9", "9", "d">>,
    <<"9", "2", "2", "3", "3", "7", "2", "0", "3", "6", "8", "5", "4", "7", "7", "5", "8", "0", "8", "s">>,
    <<"9", "9", "9", "9", "9", "9", "9", "9", "9", "9", "9", "9", "9", "9", "9", "9", "9", "9", "9", "9", "h">>,
    <<"Jul", " ", "9">>,
    <<"Jul", " ", "0", "9">>,
    <<"Jul", " ", " ", "9">>,
    <<"Jul", " ", "1", "0">>,
    <<"Feb", " ", "2", "8">>,
    <<"Feb", " ", "2", "9">>,
    <<"Feb", " ", "3", "0">>,
    <<"Dec", " ", "3", "1">>,
    <<"Jan", " ", "1">>,
    <<"Jan", " ", "0">>,
    <<"Jun", " ", "3", "1">>,
    <<"Jul", " ", "9", " ", "2", "0", "2", "0">>,
    <<"Jul", "9">>,
    <<"Jul">>,
    <<"Jul", " ">>,
    <<"2", "5", " ", "Jun", " ", "1", "9">>,
    <<"1", " ", "Jan", " ", "0", "0">>,
    <<"9", " ", "Jul", " ", "2", "0", "1", "9">>,
    <<>>,
    <<"m">>,
    <<"5">>,
    <<"x", "5", "m">>,
    <<"5", "m", "x">>,
    <<"5", " ", "m">>,
    <<"5", "m", "\n">>,
    <<" ", "5", "m">>,
    <<"-", "5", "m">>,
    <<"5", "w">>,
    <<"5", "M">>,
    <<"n", "o", "w">> }

\* the times a run may start at
Nows == { Date(2019, 7, 9, 11, 0), Date(2019, 7, 9, 13, 0), Date(2020, 1, 1, 0, 0) }

InitTime ==
  /\ Idle
  /\ ft = NoFetcher
  /\ heap = <<>>
  /\ pc = "parseTime"
  /\ nodes = <<>>
  /\ idx = 0
  /\ call \in [s : TimeTexts, now : Nows]

\* t, err := parseTime(s, now)
ParseTime ==
  /\ pc = "parseTime"
  /\ ret' = parseTime(call.s, call.now)
  /\ pc' = "done"
  /\ UNCHANGED <<call, tl, layout, ft, page, heap, opts, prof, nodes, idx, tw, loc, tweets, trail>>

NextTime == ParseTime

SpecTime == InitTime /\ [][NextTime]_vars

\* the text is <N><unit>: one or more digits and one of s, m, h, d
IsRelative(s) ==
  /\ Len(s) >= 2
  /\ s[Len(s)] \in {"s", "m", "h", "d"}
  /\ IsDigitString(SubSeq(s, 1, Len(s) - 1))

\* N and the unit of a text <N><unit>
QuantOf(s) == Written(SubSeq(s, 1, Len(s) - 1))
UnitOf(s) == s[Len(s)]

\* N units before now, for the numeral N: now with minus N * unit * 10^9
\* nanoseconds added
Before(now, n, u) ==
  IF n = <<"0">> THEN now
  ELSE [now EXCEPT !.plus =
          [neg |-> TRUE,
           digits |-> StripZeros(MulFrom(n, UnitSeconds(u), 0))
                        \o <<"0", "0", "0", "0", "0", "0", "0", "0", "0">>]]

\* C13: for a text <N><unit> parseTime returns exactly now minus N seconds,
\* minutes, hours or times 24 hours, for every N the pattern accepts, and so
\* never an instant later than now
C13_ExactlyNowMinus ==
  (pc = "done" /\ IsRelative(call.s)) =>
    /\ ret.err = ""
    /\ ret.t = Before(call.now, QuantOf(call.s), UnitOf(call.s))
    /\ ret.t.plus.neg \/ ret.t.plus = Int64Zero

\* the text is a month name, a space and a day of the month, such as "Jul 9"
IsMonthDay(s) ==
  /\ Len(s) \in {3, 4}
  /\ \E i \in 1..12 : Months[i] = s[1]
  /\ s[2] = " "
  /\ IsDigitString(SubSeq(s, 3, Len(s)))

MonthOf(s) == CHOOSE i \in 1..12 : Months[i] = s[1]
DayOf(s) ==
  IF Len(s) = 3 THEN DigitOf(s[3]) ELSE 10 * DigitOf(s[3]) + DigitOf(s[4])

\* the date m-d at 12:00 lies after now in now's year
AfterNow(m, d, now) ==
  \/ m > now.month
  \/ m = now.month /\ d > now.day
  \/ m = now.month /\ d = now.day /\ now.hour < 12

\* C14: for a month and day such as "Jul 9" parseTime returns that month and
\* day at 12:00 in the year of now, or in the year before when that instant
\* lies after now
C14_MonthDayYear ==
  (/\ pc = "done" /\ IsMonthDay(call.s)
   /\ DayOf(call.s) >= 1 /\ DayOf(call.s) <= DaysIn[MonthOf(call.s)]
   /\ <<MonthOf(call.s), DayOf(call.s)>> # <<2, 29>>) =>
    /\ ret.err = ""
    /\ ret.t = Date(IF AfterNow(MonthOf(call.s), DayOf(call.s), call.now)
                      THEN call.now.year - 1 ELSE call.now.year,
                    MonthOf(call.s), DayOf(call.s), 12, 0)

\* the text is a day, a month name and a year of two digits, such as
\* "25 Jun 19"
IsDayMonthYear(s) ==
  \E k \in {1, 2} :
    /\ Len(s) = k + 5
    /\ IsDigitString(SubSeq(s, 1, k))
    /\ s[k + 1] = " "
    /\ \E i \in 1..12 : Months[i] = s[k + 2]
    /\ s[k + 3] = " "
    /\ IsDigitString(SubSeq(s, k + 4, k + 5))
    /\ LET d == IF k = 1 THEN DigitOf(s[1]) ELSE 10 * DigitOf(s[1]) + DigitOf(s[2])
       IN  d >= 1 /\ d <= DaysIn[CHOOSE i \in 1..12 : Months[i] = s[k + 2]]

\* the text has one of the three forms; a run of blanks counts as one blank
Recognized(s) ==
  \/ IsRelative(s)
  \/ /\ IsMonthDay(ReplaceSpaces(s))
     /\ DayOf(ReplaceSpaces(s)) >= 1
     /\ DayOf(ReplaceSpaces(s)) <= DaysIn[MonthOf(ReplaceSpaces(s))]
  \/ IsDayMonthYear(s)

-----------------------------------------------------------------------------
(* The legacy parser: parse, proc and addEmbedded of parse.go from line     *)
(* 1160, and addEmbeddedContent of the version that also embeds quoted      *)
(* tweets.  Its findNodes goes on below the nodes it matches.  The bytes a  *)
(* fetch returns name a page, and htmlParse is the tree html.Parse makes of *)
(* them.  A heap and a fetcher travel together as g = [h, ft].              *)

\* the legacy matchFunc(tag, class), and the two link predicates
TagClass(tag, class) == [fn |-> "tagClass", tag |-> tag, class |-> class]
PreEmbedded == [fn |-> "preEmbedded"]
ExpandedURL == [fn |-> "expandedURL"]

RECURSIVE findNodesLegacy(_, _, _)
\* findNodes, parse.go lines 1291-1301
findNodesLegacy(h, n, f) ==
  LET RECURSIVE from(_)
      from(c) == IF c = nil THEN <<>>
                 ELSE findNodesLegacy(h, c, f) \o from(h[c].NextSibling)
  IN  (IF Match(h, n, f) THEN <<n>> ELSE <<>>) \o from(h[n].FirstChild)

\* rewriteURL, lines 1390-1399, for the result u of url.Parse(s)
rewriteParsed(s, u) ==
  IF u.err THEN [err |-> "parse", url |-> <<>>]
  ELSE IF IsAbs(u) THEN [err |-> "", url |-> s]
  ELSE [err |-> "", url |-> urlString([u EXCEPT !.Scheme = defaultScheme,
                                                !.Host = defaultHost])]

\* rewriteURL: [err, url]
rewriteURL(s) ==
  IF s = <<>> THEN [err |-> "empty URL", url |-> <<>>] ELSE rewriteParsed(s, urlParse(s))

mobileHost == <<"mobile.twitter.com">>

\* the image a photo page shows
ImageURL == <<"https", ":", "/", "/", "pbs.twimg.com", "/", "media", "/", "1">>

\* the photo page of a quoted tweet
QuotedPhotoURL ==
  <<"https", ":", "/", "/", "twitter.com", "/", "other", "/", "status", "/", "7", "/",
    "photo", "/", "1">>

\* html.Parse of the bytes of a page: the document, with the html and body
\* elements the parser always supplies
htmlParse(b) ==
  [Type |-> DocumentNode, Data |-> "", Attr |-> <<>>, Kids |->
    << E("html", <<>>,
         << E("head", <<>>, <<>>),
            E("body", <<>>,
              CASE b = "photo" ->
                     << E("div", <<At("class", <<"media">>)>>,
                          << E("img", <<At("src", ImageURL)>>, <<>>) >>) >>
                [] b = "noSrc" ->
                     << E("div", <<At("class", <<"media">>)>>, << E("img", <<>>, <<>>) >>) >>
                [] b = "noImg" ->
                     << E("div", <<At("class", <<"media">>)>>, << T(<<"gone">>) >>) >>
                [] b = "noMedia" -> << E("div", <<At("class", <<"error">>)>>, <<>>) >>
                [] b = "tweet" ->
                     << E("div", <<At("class", <<"tweet-text">>)>>,
                          << T(<<"quoted">>),
                             E("a", <<At("data-pre-embedded", <<"true">>),
                                      At("data-url", QuotedPhotoURL)>>,
                               << T(<<"pic">>) >>) >>) >>
                [] OTHER -> <<>>) >>) >>]

\* getImageURL, lines 1454-1460, for the tree h of the photo page: [url, err]
imageOf(h, media) ==
  IF media = <<>> THEN [url |-> <<>>, err |-> "didn't find media div"]
  ELSE IF findNodesLegacy(h, media[1], TagClass("img", <<>>)) = <<>>
    THEN [url |-> <<>>, err |-> "didn't find image"]
  ELSE [url |-> getAttr(h, findNodesLegacy(h, media[1], TagClass("img", <<>>))[1], "src"),
        err |-> ""]

imageOfPage(h) == imageOf(h, findNodesLegacy(h, 1, TagClass("div", <<"media">>)))

\* getImageURL, lines 1448-1460, for the result r of the fetch: [ft, url, err]
imageFetched(r) ==
  IF r.err # "" THEN [ft |-> r.ft, url |-> <<>>, err |-> r.err]
  ELSE [ft |-> r.ft, url |-> imageOfPage(Build(<<>>, htmlParse(r.b))).url,
        err |-> imageOfPage(Build(<<>>, htmlParse(r.b))).err]

\* getImageURL, lines 1438-1448, for the parsed URL
imageOfURL(f, url) ==
  IF url.Host # mobileHost THEN [ft |-> f, url |-> <<>>, err |-> ""]
  ELSE IF ~Contains(url.Path, <<"/", "photo", "/">>) THEN [ft |-> f, url |-> <<>>, err |-> ""]
  ELSE imageFetched(fetch(f, urlString(url), TRUE))

\* getImageURL of parse.go: [ft, url, err]
getImageURL(u, f) ==
  IF urlParse(u).err THEN [ft |-> f, url |-> <<>>, err |-> ""]
  ELSE imageOfURL(f, IF urlParse(u).Host = defaultHost
                       THEN [urlParse(u) EXCEPT !.Host = mobileHost] ELSE urlParse(u))

\* for link.LastChild != nil { link.RemoveChild(link.LastChild) }
RECURSIVE dropChildren(_, _)
dropChildren(h, link) ==
  IF IsPanic(h) THEN h
  ELSE IF h[link].LastChild = nil THEN h
  ELSE dropChildren(RemoveChild(h, link, h[link].LastChild), link)

\* link.AppendChild(&html.Node{... Data: "img", Attr: src=url})
appendImage(h, link, url) ==
  IF IsPanic(h) THEN h
  ELSE AppendChild(Alloc(h, NewNode(ElementNode, "img", <<At("src", url)>>)), link, NewPtr(h))

\* link.Attr = append(link.Attr, style="display:block")
appendStyle(h, link) ==
  IF IsPanic(h) THEN h
  ELSE [h EXCEPT ![link].Attr = Append(@, At("style", <<"display:block">>))]

\* the body of addEmbedded's loop, for the result r of getImageURL
embedImage(g, link, r) ==
  IF r.err # "" \/ r.url = <<>> THEN [h |-> g.h, ft |-> r.ft]
  ELSE [h |-> appendStyle(appendImage(dropChildren(g.h, link), link, r.url), link),
        ft |-> r.ft]

\* an addEmbedded whose loop ends at the first link it cannot resolve
RECURSIVE embedLinksUntilFailure(_, _, _)
embedLinksUntilFailure(g, links, i) ==
  IF i > Len(links) \/ IsPanic(g.h) THEN g
  ELSE IF getImageURL(getAttr(g.h, links[i], "data-url"), g.ft).err # ""
    THEN [h |-> g.h, ft |-> getImageURL(getAttr(g.h, links[i], "data-url"), g.ft).ft]
  ELSE embedLinksUntilFailure(embedImage(g, links[i],
                                getImageURL(getAttr(g.h, links[i], "data-url"), g.ft)),
                              links, i + 1)

\* addEmbedded's loop over the links found
RECURSIVE embedLinks(_, _, _)
embedLinks(g, links, i) ==
  IF i > Len(links) \/ IsPanic(g.h) THEN g
  ELSE embedLinks(embedImage(g, links[i],
                             getImageURL(getAttr(g.h, links[i], "data-url"), g.ft)),
                  links, i + 1)

\* addEmbedded: [h, ft]
addEmbedded(g, n) == embedLinks(g, findNodesLegacy(g.h, n, PreEmbedded), 1)

\* getMobileURL, for the result url of url.Parse: "" unless the host is, or
\* becomes, mobile.twitter.com
mobileOf(url) ==
  IF url.err THEN <<>>
  ELSE IF url.Host = defaultHost THEN urlString([url EXCEPT !.Host = mobileHost])
  ELSE IF url.Host # mobileHost THEN <<>>
  ELSE urlString(url)

\* getMobileURL
getMobileURL(u) == mobileOf(urlParse(u))

\* getImageURL of the version with addEmbeddedContent: [ft, url, err]; its
\* errors wrap those of the fetch and of the search of the page
getImageURLMobile(url, f) ==
  IF ~Contains(getMobileURL(url), <<"/", "photo", "/">>)
    THEN [ft |-> f, url |-> <<>>, err |-> ""]
    ELSE imageFetched(fetch(f, getMobileURL(url), TRUE))

\* getTweetContent, lines 397-403, for the heap h that holds the parsed page
\* at root: [h, ft, content, err]
contentOf(g, h, f, divs) ==
  IF divs = <<>>
    THEN [h |-> g.h, ft |-> f, content |-> nil, err |-> "didn't find content"]
    ELSE [h |-> RemoveChild(h, h[divs[1]].Parent, divs[1]), ft |-> f,
          content |-> divs[1], err |-> ""]

\* getTweetContent, lines 393-403, for the result r of the fetch
contentFetched(g, r) ==
  IF r.err # "" THEN [h |-> g.h, ft |-> r.ft, content |-> nil, err |-> r.err]
  ELSE contentOf(g, Build(g.h, htmlParse(r.b)), r.ft,
                 findNodesLegacy(Build(g.h, htmlParse(r.b)), NewPtr(g.h),
                                 TagClass("div", <<"tweet-text">>)))

\* getTweetContent: [h, ft, content, err]
getTweetContent(url, g) ==
  IF ~Contains(getMobileURL(url), <<"/", "status", "/">>)
    THEN [h |-> g.h, ft |-> g.ft, content |-> nil, err |-> ""]
    ELSE contentFetched(g, fetch(g.ft, getMobileURL(url), TRUE))

\* addEmbeddedContent, lines 327-337: an <hr> before the link, the link
\* nested under a <strong>, and the content after the <strong>
insertContent(h, parent, link, content, hr, strong) ==
  InsertBefore(
    AppendChild(
      RemoveChild(
        InsertBefore(
          InsertBefore(h, parent, hr, link),
          parent, strong, link),
        parent, link),
      strong, link),
    parent, content, h[link].NextSibling)

\* the body of addEmbeddedContent's first loop, for the result r of getTweetContent
embedTweet(link, r) ==
  IF r.content = nil \/ r.err # "" \/ IsPanic(r.h) THEN [h |-> r.h, ft |-> r.ft]
  ELSE [h |-> insertContent(Alloc(Alloc(r.h, NewNode(ElementNode, "hr", <<>>)),
                                  NewNode(ElementNode, "strong", <<>>)),
                            r.h[link].Parent, link, r.content,
                            NewPtr(r.h), NewPtr(r.h) + 1),
        ft |-> r.ft]

RECURSIVE embedTweets(_, _, _)
embedTweets(g, links, i) ==
  IF i > Len(links) \/ IsPanic(g.h) THEN g
  ELSE embedTweets(embedTweet(links[i],
                              getTweetContent(getAttr(g.h, links[i], "data-url"), g)),
                   links, i + 1)

\* the body of addEmbeddedContent's second loop, for the result r of getImageURL
embedPhoto(g, link, r) ==
  IF r.url = <<>> \/ r.err # "" THEN [h |-> g.h, ft |-> r.ft]
  ELSE [h |-> appendImage(dropChildren(g.h, link), link, r.url), ft |-> r.ft]

RECURSIVE embedPhotos(_, _, _)
embedPhotos(g, links, i) ==
  IF i > Len(links) \/ IsPanic(g.h) THEN g
  ELSE embedPhotos(embedPhoto(g, links[i],
                              getImageURLMobile(getAttr(g.h, links[i], "data-url"), g.ft)),
                   links, i + 1)

\* the second loop, over the links found once the tweets are embedded
addEmbeddedPhotos(g, n) == embedPhotos(g, findNodesLegacy(g.h, n, PreEmbedded), 1)

\* addEmbeddedContent: [h, ft]
addEmbeddedContent(g, n) ==
  addEmbeddedPhotos(embedTweets(g, findNodesLegacy(g.h, n, ExpandedURL), 1), n)

\* the legacy tweet struct, and the parser struct with the error proc returns
\* and the time that time.Now() gives
NoLegacyTweet ==
  [id |-> Int64Zero, href |-> <<>>, name |-> <<>>, user |-> <<>>, time |-> ZeroTime,
   content |-> <<>>, text |-> <<>>, replyUsers |-> <<>>]

NewParser(h, f, now) ==
  [h |-> h, ft |-> f, now |-> now, timeline |-> FALSE, curTweet |-> <<>>, tweets |-> <<>>,
   err |-> ""]

\* the reply context's loop: the bare user of every <a> under the div
replyUsersOf(h, as) == [i \in 1..Len(as) |-> bareUser(cleanText(getText(h, as[i])))]

\* proc, lines 1203-1212
procUsername(p, n) ==
  IF hasClass(p.h, n, <<"tweet-reply-context">>)
    THEN [p EXCEPT !.curTweet[1].replyUsers =
            @ \o replyUsersOf(p.h, findNodesLegacy(p.h, n, TagClass("a", <<>>)))]
    ELSE [p EXCEPT !.curTweet[1].user = bareUser(cleanText(getText(p.h, n)))]

\* proc, lines 1213-1219, for the result r of parseTime
procTimestamp(p, r) ==
  IF r.err # "" THEN [p EXCEPT !.err = "bad time"] ELSE [p EXCEPT !.curTweet[1].time = r.t]

\* proc, lines 1226-1234, for the result g of addEmbedded
procRender(p, n, g) ==
  [p EXCEPT !.h = g.h, !.ft = g.ft, !.curTweet[1].content = Render(g.h, n)]

\* proc, lines 1220-1234, for the result id of strconv.ParseInt
procText(p, n, id) ==
  IF id.err THEN [p EXCEPT !.err = "failed parsing ID"]
  ELSE procRender([p EXCEPT !.curTweet[1].id = id.val,
                            !.curTweet[1].text = cleanText(getText(p.h, n))],
                  n, addEmbedded([h |-> p.h, ft |-> p.ft], n))

\* the deferred functions of proc, lines 1185 and 1194-1197
leaveTimeline(p) == [p EXCEPT !.timeline = FALSE]
appendTweet(p) == [p EXCEPT !.tweets = Append(@, p.curTweet[1]), !.curTweet = <<>>]

RECURSIVE proc(_, _)
RECURSIVE procChildren(_, _)
RECURSIVE procNext(_, _)

\* proc, lines 1188-1198, for the result r of rewriteURL
procTable(p, n, r) ==
  IF r.err # "" THEN [p EXCEPT !.err = r.err]
  ELSE appendTweet(procChildren([p EXCEPT !.curTweet = << [NoLegacyTweet EXCEPT !.href = r.url] >>],
                                p.h[n].FirstChild))

\* proc, lines 1237-1242: the loop over the children, from c on
procChildren(p, c) ==
  IF c = nil \/ p.err # "" \/ IsPanic(p.h) THEN p
  ELSE procNext(proc(p, c), c)

\* c = c.NextSibling, once proc(c) has returned p
procNext(p, c) ==
  IF p.err # "" \/ IsPanic(p.h) THEN p ELSE procChildren(p, p.h[c].NextSibling)

\* (*parser).proc
proc(p, n) ==
  IF ~p.timeline
    THEN IF isElement(p.h, n, "div") /\ hasClass(p.h, n, <<"timeline">>)
           THEN leaveTimeline(procChildren([p EXCEPT !.timeline = TRUE], p.h[n].FirstChild))
           ELSE procChildren(p, p.h[n].FirstChild)
  ELSE IF p.curTweet = <<>>
    THEN IF isElement(p.h, n, "table") /\ hasClass(p.h, n, <<"tweet">>)
           THEN procTable(p, n, rewriteURL(getAttr(p.h, n, "href")))
           ELSE procChildren(p, p.h[n].FirstChild)
  ELSE IF isElement(p.h, n, "strong") /\ hasClass(p.h, n, <<"fullname">>)
    THEN [p EXCEPT !.curTweet[1].name = cleanText(getText(p.h, n))]
  ELSE IF isElement(p.h, n, "div") /\ hasClass(p.h, n, <<"username">>)
    THEN procUsername(p, n)
  ELSE IF isElement(p.h, n, "td") /\ hasClass(p.h, n, <<"timestamp">>)
    THEN procTimestamp(p, parseTime(TrimSpace(getText(p.h, n)), p.now))
  ELSE IF isElement(p.h, n, "div") /\ hasClass(p.h, n, <<"tweet-text">>)
    THEN procText(p, n, ParseInt(getAttr(p.h, n, "data-id")))
  ELSE procChildren(p, p.h[n].FirstChild)

\* parse of parse.go line 1161, for the parser p after proc: [err, tweets, ft, h]
parsed(p) ==
  IF p.err # "" THEN [err |-> p.err, tweets |-> <<>>, ft |-> p.ft, h |-> p.h]
  ELSE [err |-> "", tweets |-> p.tweets, ft |-> p.ft, h |-> p.h]

\* parse, for the tree html.Parse has made of the page and the fetcher
parse(h, f, now) == parsed(proc(NewParser(h, f, now), 1))

-----------------------------------------------------------------------------
(* Legacy pages.  A link of a tweet's text is l = [to, pre, exp, web]: to   *)
(* says what its data-url is, pre and exp whether it carries                *)
(* data-pre-embedded="true" and a data-expanded-url, and web what the       *)
(* network answers for the page the data-url names.  The i-th link of a     *)
(* text names the status i, so that no two links name the same page.        *)

StatusURL(host, i) ==
  <<"https", ":", "/", "/", host, "/", "user", "/", "status", "/", Digits[i + 1]>>

\* the data-url of the i-th link
DataURL(to, i) ==
  CASE to = "photo"       -> StatusURL("twitter.com", i) \o <<"/", "photo", "/", "1">>
    [] to = "mobilePhoto" -> StatusURL("mobile.twitter.com", i) \o <<"/", "photo", "/", "1">>
    [] to = "status"      -> StatusURL("twitter.com", i)
    [] to = "elsewhere"   -> <<"https", ":", "/", "/", "www.google.com", "/", "photo", "/", "1">>
    [] to = "bad"         -> <<"%zz">>
    [] OTHER              -> <<>>

\* the page the i-th link leads the fetcher to
MobileURL(to, i) ==
  IF to \in {"photo", "mobilePhoto"}
    THEN StatusURL("mobile.twitter.com", i) \o <<"/", "photo", "/", "1">>
    ELSE StatusURL("mobile.twitter.com", i)

\* the <a> element of the i-th link
LinkTerm(l, i) ==
  E("a",
    << At("href", <<"https", ":", "/", "/", "t.co", "/", Digits[i + 1]>>) >>
    \o (IF l.pre THEN << At("data-pre-embedded", <<"true">>) >> ELSE <<>>)
    \o (IF l.exp THEN << At("data-expanded-url", StatusURL("twitter.com", i)) >> ELSE <<>>)
    \o (IF l.to = "none" THEN <<>> ELSE << At("data-url", DataURL(l.to, i)) >>),
    << T(<<"pic.twitter.com", "/", Digits[i + 1]>>) >>)

\* the <div class="tweet-text"> of a tweet with the links ls
TextTerm(id, ls) ==
  E("div", <<At("class", <<"tweet-text">>), At("data-id", id)>>,
    << T(<<"look", " ">>) >> \o [i \in 1..Len(ls) |-> LinkTerm(ls[i], i)])

\* one tweet of a legacy timeline, from v = [href, time, links]
LegacyTweetTerm(v) ==
  E("table", <<At("class", <<"tweet">>), At("href", v.href)>>,
    << E("tbody", <<>>,
         << E("tr", <<>>,
              << E("td", <<At("class", <<"user-info">>)>>,
                   << E("strong", <<At("class", <<"fullname">>)>>, << T(<<"User", " ", "Name">>) >>),
                      E("div", <<At("class", <<"username">>)>>, << T(<<"\n", "@", "user", "\n">>) >>) >>),
                 E("td", <<At("class", <<"timestamp">>)>>, << T(v.time) >>) >>),
            E("tr", <<>>, << E("td", <<>>, << TextTerm(<<"5">>, v.links) >>) >>) >>) >>)

\* a legacy timeline page of the tweets vs
LegacyDocTerm(vs) ==
  [Type |-> DocumentNode, Data |-> "", Attr |-> <<>>, Kids |->
    << E("html", <<>>,
         << E("head", <<>>, <<>>),
            E("body", <<>>,
              << E("div", <<At("class", <<"timeline">>)>>,
                   [i \in 1..Len(vs) |-> LegacyTweetTerm(vs[i])]) >>) >>) >>]

\* what the network answers for the pages the links ls lead to, and for the
\* photo page of a quoted tweet
WebOf(ls, quoted) ==
  [u \in { MobileURL(ls[i].to, i) : i \in 1..Len(ls) } \cup {getMobileURL(QuotedPhotoURL)} |->
     IF u = getMobileURL(QuotedPhotoURL) THEN quoted
     ELSE ls[CHOOSE i \in 1..Len(ls) : MobileURL(ls[i].to, i) = u].web]

Lv(href, time, links) == [href |-> href, time |-> time, links |-> links]

\* the links of a tweet on a timeline page, and of a text handed to
\* addEmbeddedContent
LegacyLinks ==
  [to : {"photo", "mobilePhoto", "elsewhere", "bad"}, pre : BOOLEAN, exp : {FALSE},
   web : {NoAnswer, OK("photo"), OK("noImg")}]

EmbedLinks ==
  [to : {"photo", "status", "elsewhere", "none"}, pre : BOOLEAN, exp : BOOLEAN,
   web : {NotFound, OK("photo"), OK("tweet"), OK("noMedia")}]

\* the sequences of one link and of one or two links
OneOf(S) == { <<a>> : a \in S }
OneOrTwoOf(S) == OneOf(S) \cup { <<a, b>> : a \in S, b \in S }

\* the href attributes of a tweet's table and the texts of its timestamp cell
TableHrefs ==
  { <<"/", "user", "/", "status", "/", "5">>, StatusURL("twitter.com", 5), <<>>, <<"%zz">> }

TimeCells ==
  { <<"5", "m">>, <<" ", "2", "h", "\n">>, <<"Jul", " ", "9">>,
    <<"2", "5", " ", "Jun", " ", "1", "9">>, <<"yesterday">>, <<>> }

\* the timeline pages: one tweet, or two of which the second repeats the
\* links of the first or has none
LegacyPages ==
  { << Lv(h, t, <<>>) >> : h \in TableHrefs, t \in TimeCells }
  \cup { << Lv(StatusURL("twitter.com", 5), <<"5", "m">>, ls) >> : ls \in OneOrTwoOf(LegacyLinks) }
  \cup { << Lv(StatusURL("twitter.com", 5), <<"5", "m">>, x[1]), Lv(x[2], x[3], x[4]) >> :
           x \in { y \in OneOf(LegacyLinks) \X TableHrefs \X TimeCells
                           \X ({<<>>} \cup OneOf(LegacyLinks)) : y[4] \in {<<>>, y[1]} } }

\* a fetcher with an empty cache directory
NewFetcher(web, disk) ==
  [forTest |-> FALSE, files |-> <<>>, web |-> web, disk |-> disk, log |-> <<>>]

\* the state outside the DOM, the page and the fetcher
Unused ==
  /\ layout = "full"
  /\ tl = NoTimeline
  /\ opts = [simplify |-> FALSE]
  /\ prof = NoProfile
  /\ tw = NoTweet
  /\ loc = NoLocals
  /\ tweets = <<>>
  /\ ret = NoReturn
  /\ trail = <<>>
  /\ nodes = <<>>
  /\ idx = 0

InitParse ==
  /\ Unused
  /\ page \in LegacyPages
  /\ call \in [now : Nows]
  /\ \E disk \in {"ok", "full"} : ft = NewFetcher(WebOf(page[1].links, NoAnswer), disk)
  /\ heap = Build(<<>>, LegacyDocTerm(page))
  /\ pc = "parse"

InitEmbed ==
  /\ Unused
  /\ \E ls \in OneOrTwoOf(EmbedLinks) : page = << Lv(<<>>, <<>>, ls) >>
  /\ call \in [quoted : {NotFound, OK("photo")}]
  /\ ft = NewFetcher(WebOf(page[1].links, call.quoted), "ok")
  /\ heap = Build(<<>>, TextTerm(<<"5">>, page[1].links))
  /\ pc = "embed"

InitLegacy == InitTime \/ InitParse \/ InitEmbed

\* tweets, err := parse(r, ft), for the result r
Parsed(r) ==
  /\ heap' = r.h
  /\ ft' = r.ft
  /\ ret' = [err |-> r.err, tweets |-> r.tweets]

\* a call of parse on the page, at the time call.now
Parse ==
  /\ pc = "parse"
  /\ Parsed(parse(heap, ft, call.now))
  /\ pc' = "parsed"
  /\ UNCHANGED <<call, tl, layout, page, opts, prof, nodes, idx, tw, loc, tweets, trail>>

\* addEmbeddedContent(n, ft), for the result g
Embedded(g) ==
  /\ heap' = g.h
  /\ ft' = g.ft

\* a call of addEmbeddedContent on the text of a tweet
AddEmbeddedContent ==
  /\ pc = "embed"
  /\ Embedded(addEmbeddedContent([h |-> heap, ft |-> ft], 1))
  /\ pc' = "embedded"
  /\ UNCHANGED <<call, tl, layout, page, opts, prof, nodes, idx, tw, loc, tweets, ret, trail>>

NextLegacy == ParseTime \/ Parse \/ AddEmbeddedContent

SpecLegacy == InitLegacy /\ [][NextLegacy]_vars

\* the hrefs rewriteURL accepts
GoodHref(h) == h \notin {<<>>, <<"%zz">>}

\* C15: parseTime succeeds on every text of one of the three forms (relative
\* duration, month and day, day month and two-digit year) and returns an
\* error for every other text; in the legacy parser the error aborts the
\* whole parse, which then returns no tweet
C15_ThreeForms ==
  /\ (pc = "done") => (ret.err = "" <=> Recognized(call.s))
  /\ (pc = "parsed" /\ \A i \in 1..Len(page) : GoodHref(page[i].href)) =>
       IF \A i \in 1..Len(page) : Recognized(TrimSpace(page[i].time))
         THEN ret.err = "" /\ Len(ret.tweets) = Len(page)
         ELSE ret.err = "bad time" /\ ret.tweets = <<>>

-----------------------------------------------------------------------------
(* What the text of a tweet is to look like once its links are embedded.    *)

\* the photo page of the link is fetched and shows an image
PhotoFound(l) ==
  l.pre /\ l.to \in {"photo", "mobilePhoto"} /\ l.web = OK("photo") /\ ft.disk = "ok"

\* the page of the link is fetched and holds the text of a tweet
TweetFound(l) ==
  l.exp /\ l.to \in {"photo", "status"} /\ l.web = OK("tweet") /\ ft.disk = "ok"

\* a link whose children are replaced by the image
WithImage(t, attrs) ==
  [t EXCEPT !.Attr = @ \o attrs, !.Kids = << E("img", <<At("src", ImageURL)>>, <<>>) >>]

\* the text of a quoted tweet, its own photo embedded when its page shows one
QuotedText ==
  LET t == htmlParse("tweet").Kids[1].Kids[2].Kids[1]
  IN  IF call.quoted = OK("photo")
        THEN [t EXCEPT !.Kids = << t.Kids[1], WithImage(t.Kids[2], <<>>) >>]
        ELSE t

\* the children that take the place of the i-th link l in the legacy parser:
\* the link, with the image in it when its photo page shows one
LegacyEmbed(l, i) ==
  IF PhotoFound(l)
    THEN << WithImage(LinkTerm(l, i), << At("style", <<"display:block">>) >>) >>
    ELSE << LinkTerm(l, i) >>

\* the same for addEmbeddedContent, which also puts a rule before the link of
\* a quoted tweet, the link in a <strong> and the quoted text after it
ContentEmbed(l, i) ==
  IF TweetFound(l)
    THEN << E("hr", <<>>, <<>>),
            E("strong", <<>>,
              << IF PhotoFound(l) THEN WithImage(LinkTerm(l, i), <<>>) ELSE LinkTerm(l, i) >>),
            QuotedText >>
    ELSE << IF PhotoFound(l) THEN WithImage(LinkTerm(l, i), <<>>) ELSE LinkTerm(l, i) >>

RECURSIVE LegacyKids(_, _)
LegacyKids(ls, i) ==
  IF i > Len(ls) THEN <<>> ELSE LegacyEmbed(ls[i], i) \o LegacyKids(ls, i + 1)

RECURSIVE ContentKids(_, _)
ContentKids(ls, i) ==
  IF i > Len(ls) THEN <<>> ELSE ContentEmbed(ls[i], i) \o ContentKids(ls, i + 1)

\* the text with the links ls, embedded
Embeds(ls, kids) == [TextTerm(<<"5">>, ls) EXCEPT !.Kids = << @[1] >> \o kids]

\* C16: a failure to fetch or to parse the page of an embedded photo or of a
\* quoted tweet fails neither the tweet nor the parse: the tweet is returned,
\* a link that could not be resolved is as it was in the page, and every
\* other link of the text is embedded as if it stood alone
C16_EmbedFailuresSkipped ==
  /\ (pc = "parsed") =>
       /\ ret.err = "" <=> \A i \in 1..Len(page) :
                             /\ GoodHref(page[i].href)
                             /\ parseTime(TrimSpace(page[i].time), call.now).err = ""
       /\ ret.err = "" =>
            /\ Len(ret.tweets) = Len(page)
            /\ \A i \in 1..Len(page) :
                 ret.tweets[i].content =
                   Embeds(page[i].links, LegacyKids(page[i].links, 1))
  /\ (pc = "embedded") =>
       Render(heap, 1) = Embeds(page[1].links, ContentKids(page[1].links, 1))

\* a timeline page is parsed whose tweet has a link that cannot be resolved
\* before one that can
C16_Witness ==
  /\ Len(page) = 1 /\ Len(page[1].links) = 2
  /\ page[1].links[1].pre /\ page[1].links[1].to = "photo"
  /\ page[1].links[1].web \in {NoAnswer, NotFound}
  /\ PhotoFound(page[1].links[2])
  /\ pc = "parsed" /\ ret.err = "" /\ Len(ret.tweets) = 1

-----------------------------------------------------------------------------
(* The profile of the timeline.                                             *)

\* the page has no primary column, no text that begins with "@" in it, or
\* nothing that holds a name before the block of the handle
Unlocated ==
  \/ layout = "noColumn"
  \/ layout = "noHandle" /\ page = <<>>
  \/ layout \in {"noSibling", "emptyName", "bareHandle"}

\* C17: parseTimeline returns an error, and no tweets, whenever the primary
\* column is absent or the handle or the display name of the profile cannot
\* be found in it; it never succeeds with an empty handle or an empty name
C17_ProfileOrError ==
  (pc = "done") =>
    /\ Unlocated => ret.err # "" /\ ret.tweets = <<>>
    /\ ret.err = "" => prof.User # <<>> /\ prof.Name # <<>>

-----------------------------------------------------------------------------
(* getTimeline, in its two versions: the one that asks for the next page    *)
(* with max_id (call.version = "maxID") and the one of main.go that follows *)
(* the URL parse returns ("nextURL").  The bytes the network answers with   *)
(* are written as what parse makes of them: [err, tweets, next].  idx is    *)
(* np, prof and tweets the named results, page the newTweets of the page    *)
(* last parsed.                                                             *)

\* a < b for two int64
Int64Less(a, b) ==
  IF a.neg /\ ~b.neg THEN TRUE
  ELSE IF ~a.neg /\ b.neg THEN FALSE
  ELSE IF a.neg THEN NumGreater(a.digits, b.digits)
  ELSE NumGreater(b.digits, a.digits)

\* math.MaxInt64
MaxInt64 == [neg |-> FALSE, digits |-> Int64Limit(FALSE)]

baseFetchURL == <<"https", ":", "/", "/", "mobile.twitter.com", "/">>

\* fmt.Sprintf("%v", id) for an int64
FormatInt(id) == (IF id.neg THEN <<"-">> ELSE <<>>) \o id.digits

\* fmt.Sprintf("%s?max_id=%v", baseURL, oldestID)
maxIDURL(baseURL, oldestID) == baseURL \o <<"?", "max_id", "=">> \o FormatInt(oldestID)

\* a loop that takes the oldest ID of the page from every tweet, retweets too
RECURSIVE oldestOfAll(_, _, _, _)
oldestOfAll(ts, user, i, oldestID) ==
  IF i > Len(ts) THEN oldestID
  ELSE oldestOfAll(ts, user, i + 1,
                   IF Int64Less(ts[i].id, oldestID) THEN ts[i].id ELSE oldestID)

\* getTimeline, lines 171-175: the ID of the oldest tweet of the page that is
\* the user's own, from the i-th tweet on
RECURSIVE oldestOwn(_, _, _, _)
oldestOwn(ts, user, i, oldestID) ==
  IF i > Len(ts) THEN oldestID
  ELSE oldestOwn(ts, user, i + 1,
                 IF ts[i].user = user /\ Int64Less(ts[i].id, oldestID)
                   THEN ts[i].id ELSE oldestID)

\* a loop that appends every tweet of the page, seen before or not
RECURSIVE appendAll(_, _, _)
appendAll(acc, ts, i) ==
  IF i > Len(ts) THEN acc
  ELSE appendAll([tweets |-> Append(acc.tweets, ts[i]),
                  seenIDs |-> acc.seenIDs \cup {ts[i].id}],
                 ts, i + 1)

\* getTimeline, lines 178-181: the tweets not seen yet are appended
RECURSIVE appendUnseen(_, _, _)
appendUnseen(acc, ts, i) ==
  IF i > Len(ts) THEN acc
  ELSE appendUnseen(IF ts[i].id \in acc.seenIDs THEN acc
                    ELSE [tweets |-> Append(acc.tweets, ts[i]),
                          seenIDs |-> acc.seenIDs \cup {ts[i].id}],
                    ts, i + 1)

\* return prof, tweets, latestID, err
ReturnTimeline(latestID, err) ==
  /\ ret' = [tweets |-> tweets', latestID |-> latestID, err |-> err]
  /\ pc' = "done"
  /\ idx' = idx

\* an end of the loop's body that does not compare the next URL with the one
\* just fetched
NextPageAgain(latestID, seenIDs, url) ==
  IF url = <<>>
    THEN /\ ReturnTimeline(latestID, "")
         /\ tl' = [tl EXCEPT !.latestID = latestID, !.seenIDs = seenIDs]
    ELSE /\ tl' = [url |-> url, seenIDs |-> seenIDs, latestID |-> latestID]
         /\ idx' = idx + 1
         /\ pc' = "loop"
         /\ UNCHANGED ret

\* getTimeline, lines 188-200, and main.go lines 175-178: the end of the
\* loop's body, for the URL of the next page ("" when there is none)
NextPage(latestID, seenIDs, url) ==
  IF url = <<>> \/ (call.version = "maxID" /\ url = tl.url)
    THEN /\ ReturnTimeline(latestID, "")
         /\ tl' = [tl EXCEPT !.latestID = latestID, !.seenIDs = seenIDs]
    ELSE /\ tl' = [url |-> url, seenIDs |-> seenIDs, latestID |-> latestID]
         /\ idx' = idx + 1
         /\ pc' = "loop"
         /\ UNCHANGED ret

\* the URL to ask the next page with: from the oldest ID of the user's own
\* tweets, or the one parse has found
nextURLOf(p, user, oldestID) ==
  IF call.version = "nextURL" THEN p.next
  ELSE IF oldestID = MaxInt64 THEN <<>>
  ELSE maxIDURL(baseFetchURL \o <<call.user>>, oldestID)

\* getTimeline, lines 169-200, for the tweets and IDs acc after the page
Collected(p, latestID, acc) ==
  /\ tweets' = acc.tweets
  /\ NextPage(latestID, acc.seenIDs,
              nextURLOf(p, p.prof.User, oldestOwn(p.tweets, p.prof.User, 1, MaxInt64)))

\* a getTimeline that tests every page, not only the first, for the old
\* latest ID
PagedUnchanged(p, latestID) ==
  IF p.tweets[1].id = call.oldLatestID
    THEN /\ tweets' = tweets
         /\ tl' = tl
         /\ ReturnTimeline(p.tweets[1].id, "no new tweets")
    ELSE Collected(p, latestID,
                   appendUnseen([tweets |-> tweets, seenIDs |-> tl.seenIDs], p.tweets, 1))

\* getTimeline, lines 161-200, for the parsed page p: [prof, tweets, next]
Paged(p, latestID) ==
  IF idx = 0 /\ latestID = call.oldLatestID
    THEN /\ tweets' = tweets
         /\ tl' = tl
         /\ ReturnTimeline(latestID, "no new tweets")
    ELSE Collected(p, latestID,
                   appendUnseen([tweets |-> tweets, seenIDs |-> tl.seenIDs], p.tweets, 1))

\* getTimeline, lines 150-167, for the result r of the fetch of tl.url
Got(r) ==
  /\ ft' = r.ft
  /\ IF r.err # ""
       THEN /\ UNCHANGED <<prof, tweets, tl>>
            /\ page' = <<>>
            /\ ReturnTimeline(Int64Zero, r.err)
     ELSE IF r.b.err # ""
       THEN /\ prof' = r.b.prof
            /\ page' = <<>>
            /\ UNCHANGED <<tweets, tl>>
            /\ ReturnTimeline(tl.latestID, r.b.err)
     ELSE IF r.b.tweets = <<>>
       THEN /\ prof' = r.b.prof
            /\ page' = <<>>
            /\ UNCHANGED <<tweets, tl>>
            /\ ReturnTimeline(tl.latestID, "")
     ELSE /\ prof' = r.b.prof
          /\ page' = r.b.tweets
          /\ Paged(r.b, IF idx = 0 THEN r.b.tweets[1].id ELSE tl.latestID)

\* the largest number of pages a run asks for
MaxPages == 4

\* the IDs of the tweets of a timeline, and the tweets: the user's own and
\* retweets of another user's
Int64Of(d) == [neg |-> FALSE, digits |-> d]
TweetIDs == { Int64Of(<<"3">>), Int64Of(<<"8">>), MaxInt64 }
TimelineTweets == [id : TweetIDs, user : { <<"user">>, <<"other">> }]

\* the URL of the older tweets that the parse of main.go finds on a page
OlderURL == baseFetchURL \o <<"user", "?", "max_id", "=", "2">>

\* what parse makes of the bytes of a page: an error, or the profile, up to
\* two tweets and, in main.go, the URL of the next page
ParsedPages(version) ==
  { [err |-> "parse", prof |-> NoProfile, tweets |-> <<>>, next |-> <<>>] }
  \cup { [err |-> "", prof |-> [NoProfile EXCEPT !.User = <<"user">>], tweets |-> ts, next |-> n] :
           ts \in {<<>>} \cup OneOrTwoOf(TimelineTweets),
           n \in IF version = "nextURL" THEN {<<>>, OlderURL} ELSE {<<>>} }

InitTimeline ==
  /\ layout = "full"
  /\ opts = [simplify |-> FALSE]
  /\ tw = NoTweet
  /\ loc = NoLocals
  /\ trail = <<>>
  /\ nodes = <<>>
  /\ heap = <<>>
  /\ ret = NoReturn
  /\ page = <<>>
  /\ prof = NoProfile
  /\ tweets = <<>>
  /\ idx = 0
  /\ call \in [user : {"user"}, oldLatestID : {Int64Zero, Int64Of(<<"8">>)},
               pages : 1..MaxPages, version : {"maxID", "nextURL"}]
  /\ tl = [NoTimeline EXCEPT !.url = baseFetchURL \o <<call.user>>]
  /\ ft = NewFetcher(<<>>, "ok")
  /\ pc = "loop"

\* one pass of getTimeline's loop: the page at tl.url is fetched, for the
\* answer a of the network, and parsed
GetPage ==
  /\ pc = "loop"
  /\ idx < call.pages
  /\ \/ \E a \in {NoAnswer, NotFound} :
          Got(fetch([ft EXCEPT !.web = [u \in {tl.url} |-> a]], tl.url, FALSE))
     \/ \E p \in ParsedPages(call.version) :
          Got(fetch([ft EXCEPT !.web = [u \in {tl.url} |-> OK(p)]], tl.url, FALSE))
  /\ UNCHANGED <<call, layout, heap, opts, nodes, tw, loc, trail>>

\* the loop ends after the pages asked for: return prof, tweets, latestID, nil
LoopEnd ==
  /\ pc = "loop"
  /\ idx >= call.pages
  /\ tweets' = tweets
  /\ ReturnTimeline(tl.latestID, "")
  /\ UNCHANGED <<call, tl, layout, ft, page, heap, opts, prof, nodes, tw, loc, trail>>

NextTimeline == GetPage \/ LoopEnd

SpecTimeline == InitTimeline /\ [][NextTimeline]_vars

\* the IDs of the user's own tweets among ts
OwnIDs(ts, user) == { ts[i].id : i \in { j \in 1..Len(ts) : ts[j].user = user } }

\* the least of a set of int64
Least(S) == CHOOSE x \in S : \A y \in S : x = y \/ Int64Less(x, y)

\* C18: the max_id of the request for the next page is the smallest ID among
\* the tweets of the current page that the user wrote; the IDs of retweets
\* never determine it, and after a page without a tweet of the user's own no
\* further page is requested
C18_OldestOwn ==
  [][(pc = "loop" /\ idx < call.pages /\ call.version = "maxID") =>
       /\ ft'.log = Append(ft.log, [op |-> "get", u |-> tl.url])
       /\ pc' = "loop" =>
            /\ OwnIDs(page', prof'.User) # {}
            /\ tl'.url = maxIDURL(baseFetchURL \o <<call.user>>,
                                  Least(OwnIDs(page', prof'.User)))
       /\ (page' # <<>> /\ OwnIDs(page', prof'.User) = {}) => pc' = "done"]_vars

\* a second page has been asked for with the ID of the user's own tweet of
\* the first page, which also held a retweet with a smaller ID
C18_Witness ==
  /\ call.version = "maxID" /\ pc = "loop" /\ idx = 1 /\ call.pages = 2
  /\ page = << [id |-> Int64Of(<<"8">>), user |-> <<"user">>],
               [id |-> Int64Of(<<"3">>), user |-> <<"other">>] >>
  /\ tl.url = baseFetchURL \o <<"user", "?", "max_id", "=", "8">>

\* C19: getTimeline returns errUnchanged, with no tweets, exactly when the
\* first tweet of the first page fetched has the ID oldLatestID; no further
\* page is then fetched, and on a later page a tweet with that ID does not
\* end the run
C19_UnchangedOnFirstPage ==
  [][(pc = "loop") =>
       /\ (pc' = "done" /\ ret'.err = "no new tweets")
            <=> (idx = 0 /\ page' # <<>> /\ page'[1].id = call.oldLatestID)
       /\ (pc' = "done" /\ ret'.err = "no new tweets") =>
            /\ ret'.tweets = <<>>
            /\ ret'.latestID = call.oldLatestID
            /\ Len(ft'.log) = 1
       /\ (idx > 0 /\ idx < call.pages /\ page' # <<>>
           /\ \E i \in 1..Len(page') : page'[i].id = call.oldLatestID) =>
            /\ ret'.err = ""
            /\ \A i \in 1..Len(page') :
                 \E j \in 1..Len(tweets') : tweets'[j].id = page'[i].id]_vars

\* the run has returned errUnchanged after one fetch
C19_Witness ==
  /\ pc = "done" /\ ret.err = "no new tweets" /\ ret.tweets = <<>>
  /\ Len(ft.log) = 1 /\ page # <<>> /\ page[1].id = call.oldLatestID
  /\ call.pages = MaxPages

\* the IDs of the tweets ts
IDsOf(ts) == { ts[i].id : i \in 1..Len(ts) }

\* no two tweets of ts have the same ID
NoDup(ts) == \A i, j \in 1..Len(ts) : ts[i].id = ts[j].id => i = j

\* the places of ts that hold a tweet whose ID is neither in seen nor at an
\* earlier place of ts
FirstSeen(ts, seen) ==
  { i \in 1..Len(ts) : ts[i].id \notin seen /\ \A j \in 1..(i - 1) : ts[j].id # ts[i].id }

\* the rank of i among the numbers S
RankIn(S, i) == Cardinality({ j \in S : j <= i })

\* after a pass of the loop the tweets collected are those collected before,
\* followed by the tweets of the page whose ID is met for the first time, in
\* the page's order
KeptAtFirst ==
  /\ Len(tweets') = Len(tweets) + Cardinality(FirstSeen(page', IDsOf(tweets)))
  /\ \A i \in 1..Len(tweets) : tweets'[i] = tweets[i]
  /\ \A i \in FirstSeen(page', IDsOf(tweets)) :
       tweets'[Len(tweets) + RankIn(FirstSeen(page', IDsOf(tweets)), i)] = page'[i]

\* the run ends in this step with errUnchanged
EndsUnchanged == pc' = "done" /\ ret'.err = "no new tweets"

\* C25 as stated: the list getTimeline returns never holds two tweets with
\* the same ID; a tweet seen on several pages is kept once, where it first
\* occurred; and every ID seen on a fetched page is in the result
C25_AllSeenKept ==
  [][(pc = "loop" /\ idx < call.pages) =>
       /\ NoDup(tweets')
       /\ pc' = "done" => ret'.tweets = tweets'
       /\ KeptAtFirst
       /\ IDsOf(page') \subseteq IDsOf(tweets')]_vars

\* C25: the list getTimeline returns never holds two tweets with the same
\* ID; a tweet seen on several pages is kept once, where it first occurred;
\* and every ID seen on a fetched page is in the result, unless the run ends
\* with errUnchanged on the first page, and then the list is empty
C25_KeptOnce ==
  [][(pc = "loop" /\ idx < call.pages) =>
       /\ NoDup(tweets')
       /\ pc' = "done" => ret'.tweets = tweets'
       /\ ~EndsUnchanged => KeptAtFirst /\ IDsOf(page') \subseteq IDsOf(tweets')
       /\ EndsUnchanged => tweets' = <<>> /\ page' # <<>>]_vars

\* the second page held a retweet of the first page again, before a tweet of
\* the user's own: the retweet is in the list once, where the first page had it
C25_Witness ==
  /\ pc = "done" /\ ret.err = "" /\ Len(ft.log) = 2
  /\ page = << [id |-> Int64Of(<<"8">>), user |-> <<"other">>],
               [id |-> Int64Of(<<"3">>), user |-> <<"user">>] >>
  /\ ret.tweets = << [id |-> MaxInt64, user |-> <<"user">>],
                     [id |-> Int64Of(<<"8">>), user |-> <<"other">>],
                     [id |-> Int64Of(<<"3">>), user |-> <<"user">>] >>

\* the fetches of the run so far are at most the pages asked for, each pass
\* of the loop fetches tl.url once and ends the run or counts one page more,
\* and the run ends when no page is left
BoundedFetches ==
  /\ Len(ft'.log) <= call.pages
  /\ pc = "loop" => idx = Len(ft.log)
  /\ (pc = "loop" /\ idx < call.pages) =>
       /\ ft'.log = Append(ft.log, [op |-> "get", u |-> tl.url])
       /\ pc' = "done" \/ (pc' = "loop" /\ idx' = idx + 1)
  /\ (pc = "loop" /\ idx >= call.pages) => pc' = "done" /\ ft'.log = ft.log

\* the loop stops when the URL made from the oldest ID of the user's own
\* tweets on the page is the URL just fetched
StopsOnSameURL ==
  (pc = "loop" /\ idx < call.pages /\ OwnIDs(page', prof'.User) # {}
   /\ maxIDURL(baseFetchURL \o <<call.user>>, Least(OwnIDs(page', prof'.User))) = tl.url) =>
    pc' = "done" /\ ret'.err = "" /\ tl'.url = tl.url

-----------------------------------------------------------------------------
(* fetchUser: the attempts to fetch the timeline, under the fetch timeout   *)
(* and up to the number of retries asked for.  Time is counted in ticks of  *)
(* one second; tl holds fetchUser's locals ctx, attempts and dom and the    *)
(* clock, and trail the attempts made: when each began, the context it was  *)
(* given and the error it ended with.                                       *)

\* context.Background(): a context without a deadline
Background == [has |-> FALSE, at |-> 0]

\* context.WithTimeout(parent, d), called at the time now: the deadline is now + d
\* unless the parent's is earlier
WithTimeout(parent, now, d) ==
  [has |-> TRUE, at |-> IF parent.has /\ parent.at < now + d THEN parent.at ELSE now + d]

\* ctx.Err() != nil at the time now
Expired(ctx, now) == ctx.has /\ now >= ctx.at

\* the most retries asked for, and the longest a fetch that is not cut short takes
MaxRetries == 2
MaxWork == 2

\* the values of -fetch-timeout, in seconds
FetchTimeouts == {0, 2}

\* the DOMs the browser hands back, named by what parseTimeline makes of them
Doms == {"tweets", "empty", "broken"}

\* what fetchTimeline(ctx, ...) begun at the time now can come to: under a context
\* that has expired nothing runs; otherwise the work of d seconds either is cut
\* short at the deadline or ends with the DOM or with an error of its own
fetchTimelineResults(ctx, now) ==
  IF Expired(ctx, now)
    THEN { [dom |-> "", err |-> "context deadline exceeded", now |-> now] }
    ELSE UNION { IF ctx.has /\ now + d >= ctx.at
                   THEN { [dom |-> "", err |-> "context deadline exceeded", now |-> ctx.at] }
                   ELSE { [dom |-> dom, err |-> "", now |-> now + d] : dom \in Doms }
                        \cup { [dom |-> "", err |-> e, now |-> now + d] :
                                 e \in {"didn't receive tweets", "tweets are protected"} } :
                 d \in 1..MaxWork }

\* parseTimeline(strings.NewReader(dom), parseOpts), for the DOMs above
parseTimelineOf(dom) ==
  CASE dom = "tweets" -> [tweets |-> <<Int64Of(<<"8">>)>>, err |-> ""]
    [] dom = "empty"  -> [tweets |-> <<>>, err |-> ""]
    [] OTHER          -> [tweets |-> <<>>, err |-> "didn't find primary column"]

InitUser ==
  /\ page = <<>>
  /\ layout = "full"
  /\ opts = [simplify |-> FALSE]
  /\ prof = NoProfile
  /\ tw = NoTweet
  /\ loc = NoLocals
  /\ tweets = <<>>
  /\ ret = NoReturn
  /\ trail = <<>>
  /\ ft = NoFetcher
  /\ heap = <<>>
  /\ nodes = <<>>
  /\ idx = 0
  /\ call \in [fetchTimeout : FetchTimeouts, fetchRetries : 0..MaxRetries]
  /\ tl = [ctx |-> Background, attempts |-> 0, now |-> 0, dom |-> ""]
  /\ pc = "fetch"

\* a fetchUser that gives up when the number of attempts has reached fetchRetries
FailedOneShort(attempts, err) ==
  IF attempts >= call.fetchRetries
    THEN /\ ret' = [NoReturn EXCEPT !.done = TRUE, !.err = "failed fetching timeline"]
         /\ pc' = "done"
    ELSE /\ pc' = "fetch"
         /\ UNCHANGED ret

\* fetchUser, lines 553-559: the attempt has failed with err
Failed(attempts, err) ==
  IF attempts > call.fetchRetries
    THEN /\ ret' = [NoReturn EXCEPT !.done = TRUE, !.err = "failed fetching timeline"]
         /\ pc' = "done"
    ELSE /\ pc' = "fetch"
         /\ UNCHANGED ret

\* fetchUser, lines 550-559, for the context ctx of the attempt and the result r of
\* fetchTimeline
Attempted(ctx, r) ==
  /\ trail' = Append(trail, [at |-> tl.now, ctx |-> ctx, err |-> r.err])
  /\ tl' = [ctx |-> ctx, attempts |-> tl.attempts + 1, now |-> r.now, dom |-> r.dom]
  /\ IF r.err = "" THEN pc' = "parse" /\ UNCHANGED ret
     ELSE Failed(tl.attempts + 1, r.err)

\* the context of the next attempt, lines 545-549
attemptContext(ctx, now) ==
  IF call.fetchTimeout > 0 THEN WithTimeout(ctx, now, call.fetchTimeout) ELSE ctx

\* one pass of fetchUser's loop, lines 544-560
Attempt ==
  /\ pc = "fetch"
  /\ \E r \in fetchTimelineResults(attemptContext(tl.ctx, tl.now), tl.now) :
       Attempted(attemptContext(tl.ctx, tl.now), r)
  /\ UNCHANGED <<call, layout, ft, page, heap, opts, prof, nodes, idx, tw, loc, tweets>>

\* fetchUser, lines 562-569, for the result p of parseTimeline
ParsedUser(p) ==
  /\ tweets' = p.tweets
  /\ ret' = [NoReturn EXCEPT
               !.done = TRUE,
               !.tweets = IF p.err = "" THEN p.tweets ELSE <<>>,
               !.err = IF p.err # "" THEN "failed parsing timeline"
                       ELSE IF p.tweets = <<>> THEN "no tweets found" ELSE ""]
  /\ pc' = "done"

\* fetchUser, lines 562-569: the DOM of the attempt that succeeded is parsed
ParseUser ==
  /\ pc = "parse"
  /\ ParsedUser(parseTimelineOf(tl.dom))
  /\ UNCHANGED <<call, tl, layout, ft, page, heap, opts, prof, nodes, idx, tw, loc, trail>>

NextUser == Attempt \/ ParseUser

SpecUser == InitUser /\ [][NextUser]_vars

\* C21: fetchUser makes at most fetchRetries + 1 attempts; it stops at the first
\* attempt that succeeds and parses the DOM of that attempt, and it returns the
\* fetch error only after exactly fetchRetries + 1 attempts that all failed, so
\* that with fetchRetries = 0 one failure is final
C21_AttemptsBounded ==
  /\ Len(trail) = tl.attempts
  /\ tl.attempts <= call.fetchRetries + 1
  /\ \A i \in 1..(Len(trail) - 1) : trail[i].err # ""
  /\ (pc = "fetch" /\ trail # <<>>) => trail[Len(trail)].err # ""
  /\ (pc = "parse") => trail[Len(trail)].err = ""
  /\ (pc = "done" /\ ret.err = "failed fetching timeline") =>
       /\ tl.attempts = call.fetchRetries + 1
       /\ trail[Len(trail)].err # ""
  /\ (pc = "done" /\ ret.err # "failed fetching timeline") =>
       /\ trail[Len(trail)].err = ""
       /\ ret.tweets = parseTimelineOf(tl.dom).tweets
       /\ ret.err = "" <=> tl.dom = "tweets"

\* the second of three attempts allowed has succeeded and its DOM has been parsed
C21_Witness ==
  /\ pc = "done" /\ ret.err = "" /\ call.fetchRetries = 2
  /\ tl.attempts = 2 /\ trail[1].err # "" /\ tl.dom = "tweets"

\* C29: every attempt, the first and each retry, runs under its own full fetch
\* timeout: its deadline lies fetchTimeout after its beginning, and none begins
\* with a deadline that has passed
C29_OwnTimeout ==
  \A i \in 1..Len(trail) :
    call.fetchTimeout > 0 =>
      /\ trail[i].ctx.at = trail[i].at + call.fetchTimeout
      /\ ~Expired(trail[i].ctx, trail[i].at)

-----------------------------------------------------------------------------
(* One run of main for a timeline whose feed goes to a file: the latest ID  *)
(* of the old feed is read, the timeline fetched, and the feed written to   *)
(* a temporary file that then replaces the old one.  ft.files is the        *)
(* directory of the feed: the file at feedPath and the temporary file.      *)

\* strings.ToLower of a lexeme, and of a string
LowerOf(c) ==
  CASE c \in {"Other", "OTHER"} -> "other"
    [] c \in {"User", "USER"}   -> "user"
    [] OTHER                    -> c

ToLower(s) == [i \in 1..Len(s) |-> LowerOf(s[i])]

\* writeFeed, lines 596-599: the keys of skipUsersMap
skipUsersMap(skipUsers) == { ToLower(bareUser(skipUsers[i])) : i \in 1..Len(skipUsers) }

\* writeFeed, lines 609-618: the feeds.Item of the tweet t
itemOf(t) == [Id |-> FormatInt(t.ID), Author |-> displayName(t), Link |-> t.Href]

\* a loop that skips every tweet of a user to skip, the timeline's own too
RECURSIVE feedItemsOwnerToo(_, _, _, _, _, _)
feedItemsOwnerToo(pr, ts, replies, skip, i, items) ==
  IF i > Len(ts) THEN items
  ELSE IF ~replies /\ reply(ts[i]) THEN feedItemsOwnerToo(pr, ts, replies, skip, i + 1, items)
  ELSE IF ToLower(ts[i].User) \in skip
    THEN feedItemsOwnerToo(pr, ts, replies, skip, i + 1, items)
  ELSE feedItemsOwnerToo(pr, ts, replies, skip, i + 1, Append(items, itemOf(ts[i])))

\* writeFeed, lines 601-623: the items added to the feed, from the i-th tweet on
RECURSIVE feedItems(_, _, _, _, _, _)
feedItems(pr, ts, replies, skip, i, items) ==
  IF i > Len(ts) THEN items
  ELSE IF ~replies /\ reply(ts[i]) THEN feedItems(pr, ts, replies, skip, i + 1, items)
  ELSE IF ToLower(ts[i].User) \in skip /\ ts[i].User # pr.User
    THEN feedItems(pr, ts, replies, skip, i + 1, items)
  ELSE feedItems(pr, ts, replies, skip, i + 1, Append(items, itemOf(ts[i])))

\* getTweetsLatestID: the greatest ID of the tweets, from the i-th on
RECURSIVE getTweetsLatestID(_, _, _)
getTweetsLatestID(ts, i, latest) ==
  IF i > Len(ts) THEN latest
  ELSE getTweetsLatestID(ts, i + 1, IF Int64Less(latest, ts[i].ID) THEN ts[i].ID ELSE latest)

\* what a feed file holds: the format it is written in, its items, the latest
\* ID of its trailing comment (of UserComment in a JSON feed), and whether it
\* was written to its end
NoFeed == [format |-> "", items |-> <<>>, comment |-> <<>>, complete |-> FALSE]

\* writeFeed, lines 576-655, where every write succeeds
feedOf(format, pr, ts, replies, skipUsers) ==
  [format |-> format,
   items |-> feedItems(pr, ts, replies, skipUsersMap(skipUsers), 1, <<>>),
   comment |-> FormatInt(getTweetsLatestID(ts, 1, Int64Zero)),
   complete |-> TRUE]

\* writeFeed, lines 628-654: what the writer has received and the error returned.
\* An unknown format writes nothing; a write that fails leaves a part of the
\* feed, with or without its items
writeFeed(format, pr, ts, replies, skipUsers) ==
  IF format \notin {"atom", "rss", "json"}
    THEN { [feed |-> [NoFeed EXCEPT !.format = format], err |-> "unknown format"] }
    ELSE { [feed |-> feedOf(format, pr, ts, replies, skipUsers), err |-> ""],
           [feed |-> [NoFeed EXCEPT !.format = format], err |-> "write failed"] }
         \cup IF format = "json" THEN {}
              ELSE { [feed |-> [feedOf(format, pr, ts, replies, skipUsers)
                                  EXCEPT !.comment = <<>>, !.complete = FALSE],
                      err |-> "write failed"] }

\* the files of the directory
NoFile == [kind |-> "absent", feed |-> NoFeed, mode |-> ""]
FeedFile(feed, mode) == [kind |-> "file", feed |-> feed, mode |-> mode]

feedPath == "feed"

\* a temporary file that is the feed file itself
tempFileInPlace(path) == path

\* ioutil.TempFile(filepath.Dir(feedPath), "."+filepath.Base(feedPath)+"."): the
\* name of the new file
tempFile(path) == "." \o path \o ".123"

defaultMode == "0644"

\* getFeedLatestID: [id, err]
getFeedLatestID(file, format) ==
  IF file.kind = "absent" THEN [id |-> Int64Zero, err |-> ""]
  ELSE IF format = "json" /\ file.feed.format # "json"
    THEN [id |-> Int64Zero, err |-> "failed unmarshaling feed"]
  ELSE IF format \notin {"atom", "rss", "json"}
          \/ (format = "json") # (file.feed.format = "json")
          \/ file.feed.comment = <<>>
          \/ \E i \in 1..Len(file.feed.comment) :
               \A k \in 1..10 : Digits[k] # file.feed.comment[i]
    THEN [id |-> Int64Zero, err |-> "couldn't find latest ID in comment"]
  ELSE [id |-> ParseInt(file.feed.comment).val,
        err |-> IF ParseInt(file.feed.comment).err THEN "range" ELSE ""]

\* the tweets of the timelines: the user's own tweet, a reply of the user's to
\* another user and one to the user's own tweet, and retweets of two other users'
FeedTweet(id, user, replyUsers) ==
  [NoTweet EXCEPT !.ID = Int64Of(id), !.User = user, !.ReplyUsers = replyUsers,
                  !.Href = StatusURL("twitter.com", 5)]

FeedTweets ==
  { FeedTweet(<<"8">>, <<"user">>, <<>>),
    FeedTweet(<<"9">>, <<"user">>, << <<"Other">> >>),
    FeedTweet(<<"7">>, <<"user">>, << <<"user">> >>),
    FeedTweet(<<"3">>, <<"Other">>, <<>>),
    FeedTweet(<<"5">>, <<"third">>, << <<"user">> >>) }

\* the values of -skip-users, split at the commas
SkipLists ==
  { <<>>, << <<"@", "OTHER">> >>, << <<"USER">>, <<"other">> >> }

FeedUser == [NoProfile EXCEPT !.User = <<"user">>, !.Name = <<"Name">>]

\* the file at feedPath before the run: none, or the feed that an earlier run
\* with the same flags has written for the timeline old
OldFile(c) ==
  IF c.old = <<>> THEN NoFile
  ELSE FeedFile(feedOf(c.format, FeedUser, c.old, c.replies, c.skipUsers), "0664")

InitRun ==
  /\ page = <<>>
  /\ layout = "full"
  /\ opts = [simplify |-> FALSE]
  /\ tw = NoTweet
  /\ loc = NoLocals
  /\ ret = NoReturn
  /\ trail = <<>>
  /\ heap = <<>>
  /\ nodes = <<>>
  /\ idx = 0
  /\ prof = FeedUser
  /\ tweets = <<>>
  /\ call \in [force : BOOLEAN, replies : BOOLEAN, skipUsers : SkipLists,
               format : {"atom", "json", "bogus"},
               old : {<<>>} \cup OneOf(FeedTweets)]
  /\ ft = [NoFetcher EXCEPT !.files = (feedPath :> OldFile(call))]
  /\ tl = [oldLatestID |-> Int64Zero, f |-> ""]
  /\ pc = "start"

\* log.Fatal
Fatal(msg) ==
  /\ ret' = [NoReturn EXCEPT !.done = TRUE, !.err = msg]
  /\ pc' = "failed"

\* main, lines 479-492: the old latest ID is read and the timeline fetched; ts is
\* what fetchUser returns, <<>> with an error
Start ==
  /\ pc = "start"
  /\ tl' = [tl EXCEPT !.oldLatestID =
              IF call.force THEN Int64Zero
              ELSE getFeedLatestID(ft.files[feedPath], call.format).id]
  /\ \E ts \in {<<>>} \cup OneOrTwoOf(FeedTweets) :
       /\ tweets' = ts
       /\ IF ts = <<>> THEN Fatal("Failed getting timeline")
          ELSE pc' = "compare" /\ UNCHANGED ret
  /\ UNCHANGED <<call, layout, ft, page, heap, opts, prof, nodes, idx, tw, loc, trail>>

\* main, lines 494-497
Compare ==
  /\ pc = "compare"
  /\ pc' = IF getTweetsLatestID(tweets, 1, Int64Zero) = tl.oldLatestID
             THEN "skipped" ELSE "create"
  /\ UNCHANGED <<call, tl, layout, ft, page, heap, opts, prof, nodes, idx, tw, loc,
                 tweets, ret, trail>>

\* main, lines 503-509: the temporary file is created, or is not
CreateTemp ==
  /\ pc = "create"
  /\ \/ /\ ft' = [ft EXCEPT !.files = (tempFile(feedPath) :> FeedFile(NoFeed, "0600")) @@ @]
        /\ tl' = [tl EXCEPT !.f = tempFile(feedPath)]
        /\ pc' = "write"
        /\ UNCHANGED ret
     \/ /\ Fatal("Failed creating feed file")
        /\ UNCHANGED <<ft, tl>>
  /\ UNCHANGED <<call, layout, page, heap, opts, prof, nodes, idx, tw, loc, tweets, trail>>

\* main, lines 511-518, for what writeFeed has written to f and returned
Written_(r) ==
  /\ ft' = [ft EXCEPT !.files[tl.f].feed = r.feed]
  /\ IF r.err # "" THEN Fatal("Failed writing feed") ELSE pc' = "close" /\ UNCHANGED ret

WriteFeed ==
  /\ pc = "write"
  /\ \E r \in writeFeed(call.format, prof, tweets, call.replies, call.skipUsers) : Written_(r)
  /\ UNCHANGED <<call, tl, layout, page, heap, opts, prof, nodes, idx, tw, loc, tweets, trail>>

\* main, lines 519-521
Close ==
  /\ pc = "close"
  /\ \/ pc' = "chmod" /\ UNCHANGED ret
     \/ Fatal("Failed closing feed file")
  /\ UNCHANGED <<call, tl, layout, ft, page, heap, opts, prof, nodes, idx, tw, loc,
                 tweets, trail>>

\* main, lines 524-530: the mode of the old feed, where there is one, is given to
\* the new one; a failure is logged only
Chmod ==
  /\ pc = "chmod"
  /\ \/ ft' = [ft EXCEPT !.files[tl.f].mode =
                 IF ft.files[feedPath].kind = "file" THEN ft.files[feedPath].mode
                 ELSE defaultMode]
     \/ ft' = ft
  /\ pc' = "rename"
  /\ UNCHANGED <<call, tl, layout, page, heap, opts, prof, nodes, idx, tw, loc, tweets,
                 ret, trail>>

\* main, lines 531-533: os.Rename(f.Name(), feedPath)
Rename ==
  /\ pc = "rename"
  /\ \/ /\ ft' = [ft EXCEPT !.files = [p \in DOMAIN ft.files |->
                                         IF p = feedPath THEN ft.files[tl.f]
                                         ELSE IF p = tl.f THEN NoFile
                                         ELSE ft.files[p]]]
        /\ ret' = [NoReturn EXCEPT !.done = TRUE]
        /\ pc' = "done"
     \/ /\ Fatal("Failed replacing feed file")
        /\ UNCHANGED ft
  /\ UNCHANGED <<call, tl, layout, page, heap, opts, prof, nodes, idx, tw, loc, tweets, trail>>

NextRun == Start \/ Compare \/ CreateTemp \/ WriteFeed \/ Close \/ Chmod \/ Rename

SpecRun == InitRun /\ [][NextRun]_vars

\* the posts that the feed is to keep: all but the replies, where replies are
\* not asked for, and the posts of the users to skip other than the owner
Listed(user, skipUsers) ==
  \E i \in 1..Len(skipUsers) : ToLower(bareUser(skipUsers[i])) = ToLower(user)

Dropped(t) ==
  \/ ~call.replies /\ reply(t)
  \/ Listed(t.User, call.skipUsers) /\ t.User # prof.User

\* the places of the posts to keep, and how many of them come up to place i
Kept == { i \in 1..Len(tweets) : ~Dropped(tweets[i]) }
RankKept(i) == Cardinality({ k \in Kept : k <= i })

\* C22: writeFeed emits one item per kept post, in input order; a post is
\* dropped exactly when replies is false and it is a reply, or when its author
\* is among skipUsers (case and a leading '@' ignored) and is not the owner of
\* the timeline, whose own posts are never dropped for skipUsers
C22_KeptItems ==
  (pc \in {"close", "chmod", "rename"}) =>
    /\ Len(ft.files[tl.f].feed.items) = Cardinality(Kept)
    /\ \A i \in Kept : ft.files[tl.f].feed.items[RankKept(i)] = itemOf(tweets[i])
    /\ \A i \in 1..Len(tweets) :
         (tweets[i].User = prof.User /\ (call.replies \/ ~reply(tweets[i]))) => i \in Kept

\* the owner is among the users to skip, as is the author of a retweet: the
\* feed written holds the owner's tweet and not the retweet
C22_Witness ==
  /\ pc = "close"
  /\ call.skipUsers = << <<"USER">>, <<"other">> >>
  /\ tweets = << FeedTweet(<<"3">>, <<"Other">>, <<>>), FeedTweet(<<"8">>, <<"user">>, <<>>) >>
  /\ ft.files[tl.f].feed.items = << itemOf(FeedTweet(<<"8">>, <<"user">>, <<>>)) >>

\* the feed that this run is to write
NewFeed == feedOf(call.format, prof, tweets, call.replies, call.skipUsers)

\* C28: at every point of a run that writes the feed to a file, a failure of
\* writing, closing, chmod or renaming included, the file at feedPath holds the
\* whole previous feed or the whole new one, never a part of one; after a run
\* that failed it still holds the previous feed
C28_FeedWhole ==
  /\ \/ ft.files[feedPath] = OldFile(call)
     \/ ft.files[feedPath].kind = "file" /\ ft.files[feedPath].feed = NewFeed
  /\ ft.files[feedPath].kind = "file" => ft.files[feedPath].feed.complete
  /\ pc \in {"failed", "skipped"} => ft.files[feedPath] = OldFile(call)
  /\ pc = "done" => ft.files[feedPath].kind = "file" /\ ft.files[feedPath].feed = NewFeed

\* the write of the new feed has failed half-way: the temporary file holds the
\* items without the latest ID, and the feed of the earlier run is in its place
C28_Witness ==
  /\ pc = "failed" /\ ret.err = "Failed writing feed"
  /\ call.old # <<>> /\ ft.files[feedPath] = OldFile(call)
  /\ ft.files[tl.f].feed.items # <<>> /\ ~ft.files[tl.f].feed.complete
  /\ NewFeed # OldFile(call).feed

\* C30: a run without -force skips the writing of the feed only when no post of
\* the timeline is new, that is, when every post was in the timeline of the
\* previous run; a new post that is a retweet with an ID below the greatest ID
\* seen makes the run write the feed too
C30_NewPostsWritten ==
  (pc = "skipped" /\ ~call.force) =>
    \A i \in 1..Len(tweets) : \E j \in 1..Len(call.old) : call.old[j].ID = tweets[i].ID

-----------------------------------------------------------------------------
(* fixEmoji and the order of the rewriting steps of parseTweet              *)

\* the code point of the emoji wrapper w of the tree o, where it has an image
CodePoint(o, w) ==
  ParseUintHex(EmojiSubmatch(getAttr(o, findFirstNode(o, w, [fn |-> "emojiImg"]), "src")))

\* the emoji wrappers under m whose image's code point parses and is at most
\* unicode.MaxRune
Replaceable(o, m) ==
  { w \in Subtree(o, m) :
      /\ IsEmojiDiv(o, w)
      /\ findFirstNode(o, w, [fn |-> "emojiImg"]) # nil
      /\ ~CodePoint(o, w).err /\ ~CodePoint(o, w).big /\ CodePoint(o, w).val <= MaxRune }

\* C23: fixEmoji replaces each emoji wrapper whose code point parses and is at
\* most the greatest valid one by a single text node in the wrapper's place and
\* leaves every other node as it was; the nodes that are not under a replaced
\* wrapper, the siblings after it among them, are still reached from the root,
\* in their original order
C23_EmojiInPlace ==
  (pc = "header") =>
    /\ \A w \in Replaceable(OrigHeap, loc.main) :
         /\ heap[w].Type = TextNode
         /\ heap[w].Data = RuneString(CodePoint(OrigHeap, w).val)
         /\ heap[w].FirstChild = nil
    /\ \A x \in Subtree(OrigHeap, loc.main) \ Replaceable(OrigHeap, loc.main) :
         heap[x] = OrigHeap[x]
    /\ PreOrder(heap, loc.main)
         = SelectSeq(PreOrder(OrigHeap, loc.main),
                     LAMBDA x : ProperAncestors(OrigHeap, x)
                                  \cap Replaceable(OrigHeap, loc.main) = {})

\* the rewriting steps of parseTweet, in the order of its lines 138 to 255
StepOrder ==
  <<"fixEmoji", "content", "improveQuoteTweetHeader", "improveLinkCard", "fixVideos",
    "rewriteRelativeLinks", "inlineUserLinks", "addLineBreaks", "stripAttributes">>

RankOf(name) == CHOOSE k \in 1..Len(StepOrder) : StepOrder[k] = name

\* the steps that find their nodes by a style, class or data-testid attribute:
\* fixEmoji by style (line 276), improveLinkCard by data-testid (line 403)
ByAttribute == {"fixEmoji", "improveLinkCard"}

\* C24: the rewriting steps of parseTweet run in the fixed order emoji, quoted
\* post's header, link card, videos, links made absolute, user links, line
\* breaks, attributes stripped; no step that finds its nodes by the style, class
\* or data-testid attribute runs after the step that deletes that attribute
C24_FixedOrder ==
  /\ \A i, j \in 1..Len(trail) : i < j => RankOf(trail[i]) < RankOf(trail[j])
  /\ \A i, j \in 1..Len(trail) :
       (trail[i] = "stripAttributes" /\ trail[j] \in ByAttribute) => j < i
  /\ (pc = "render") =>
       /\ \A k \in {1, 2, 5, 6, 7, 8, 9} : \E i \in 1..Len(trail) : trail[i] = StepOrder[k]
       /\ (\E i \in 1..Len(trail) : trail[i] = "improveQuoteTweetHeader")
            <=> (\E i \in 1..Len(trail) : trail[i] = "improveLinkCard")

\* a tweet with an embed has gone through all the steps
C24_Witness == pc = "render" /\ trail = StepOrder

-----------------------------------------------------------------------------
(* fetchTimeline's wait for the first tweet: the three checks of the page   *)
(* and the sleep between two rounds, under the tweet timeout.  Time is      *)
(* counted in ticks of one second; call holds ctx, opts.tweetTimeout and    *)
(* the time the wait begins, tl the context tctx, the clock and the check   *)
(* last made, ret the error returned and the time of the return.            *)

\* time to sleep between running hasTweetExpr
hasTweetCheckDelay == 1

\* the longest time between the return of chromedp.Run and the call of
\* tctx.Err() that follows it, and the time after which a wait without a
\* deadline is no longer followed
MaxLag == 1
MaxClock == 6

\* the values of -tweet-timeout, in seconds, and the contexts fetchTimeline
\* is called with
TweetTimeouts == {0, 2}
WaitContexts == { Background, [has |-> TRUE, at |-> 1], [has |-> TRUE, at |-> 3] }

\* what chromedp.Run(tctx, chromedp.Evaluate(expr, &v)) begun at the time now
\* can come to: the value of the expression, an error of the evaluation, or
\* the error of the context when its deadline comes first
evaluateResults(tctx, now) ==
  IF Expired(tctx, now)
    THEN { [v |-> FALSE, err |-> "context deadline exceeded", now |-> now] }
    ELSE UNION { IF tctx.has /\ now + d >= tctx.at
                   THEN { [v |-> FALSE, err |-> "context deadline exceeded", now |-> tctx.at] }
                   ELSE { [v |-> v, err |-> "", now |-> now + d] : v \in BOOLEAN }
                        \cup { [v |-> FALSE, err |-> "evaluate", now |-> now + d] } :
                 d \in 0..MaxWork }

\* the errors fetchTimeline returns when a check cannot be evaluated, and
\* those it returns for what a check has found ("" for tweets)
evalError(check) ==
  CASE check = "hasTweet"   -> "failed checking for tweets"
    [] check = "loadFailed" -> "failed checking if load failed"
    [] OTHER                -> "failed checking if tweets are protected"

foundError(check) ==
  CASE check = "hasTweet"   -> ""
    [] check = "loadFailed" -> "didn't receive tweets (rate-limited?)"
    [] OTHER                -> "tweets are protected"

\* the step that follows a check that has found nothing
afterCheck(check) ==
  CASE check = "hasTweet"   -> "loadFailed"
    [] check = "loadFailed" -> "protected"
    [] OTHER                -> "select"

InitWait ==
  /\ page = <<>>
  /\ layout = "full"
  /\ opts = [simplify |-> FALSE]
  /\ prof = NoProfile
  /\ tw = NoTweet
  /\ loc = NoLocals
  /\ tweets = <<>>
  /\ ret = NoReturn
  /\ trail = <<>>
  /\ ft = NoFetcher
  /\ heap = <<>>
  /\ nodes = <<>>
  /\ idx = 0
  /\ call \in [tweetTimeout : TweetTimeouts, ctx : WaitContexts, start : 0..1]
  /\ tl = [tctx |-> IF call.tweetTimeout > 0
                      THEN WithTimeout(call.ctx, call.start, call.tweetTimeout)
                      ELSE call.ctx,
           now |-> call.start,
           last |-> [check |-> "", err |-> ""]]
  /\ pc = "hasTweet"

\* return "", err at the time t
ReturnWait(check, r, err, t) ==
  /\ ret' = [NoReturn EXCEPT !.done = TRUE, !.err = err, !.at = t]
  /\ tl' = [tl EXCEPT !.now = t, !.last = [check |-> check, err |-> r.err]]
  /\ pc' = "done"

\* a check that returns the error of chromedp.Run without asking tctx.Err()
CheckedAnyError(check, r, t) ==
  IF r.err # ""
    THEN ReturnWait(check, r, evalError(check), t)
  ELSE IF r.v
    THEN ReturnWait(check, r, foundError(check), t)
  ELSE /\ tl' = [tl EXCEPT !.now = t, !.last = [check |-> check, err |-> r.err]]
       /\ pc' = afterCheck(check)
       /\ UNCHANGED ret

\* fetchTimeline, lines 83-105: what follows the result r of a check, t being
\* the time tctx.Err() is asked at when r is an error
Checked(check, r, t) ==
  IF r.err # "" /\ ~Expired(tl.tctx, t)
    THEN ReturnWait(check, r, evalError(check), t)
  ELSE IF r.v
    THEN ReturnWait(check, r, foundError(check), t)
  ELSE /\ tl' = [tl EXCEPT !.now = t, !.last = [check |-> check, err |-> r.err]]
       /\ pc' = afterCheck(check)
       /\ UNCHANGED ret

\* a wait with a deadline is followed to its end, one without up to MaxClock
Followed == tl.tctx.has \/ tl.now < MaxClock

\* fetchTimeline, lines 83-89: the check for tweets
HasTweet ==
  /\ pc = "hasTweet"
  /\ Followed
  /\ \E r \in evaluateResults(tl.tctx, tl.now) : \E lag \in 0..MaxLag :
       Checked("hasTweet", r, IF r.err # "" THEN r.now + lag ELSE r.now)
  /\ UNCHANGED <<call, layout, ft, page, heap, opts, prof, nodes, idx, tw, loc, tweets, trail>>

\* fetchTimeline, lines 91-105: the checks for a failed load and for a
\* protected account, skipped when tctx.Err() != nil
LaterCheck(check) ==
  /\ pc = check
  /\ Followed
  /\ IF Expired(tl.tctx, tl.now)
       THEN /\ pc' = afterCheck(check)
            /\ UNCHANGED <<tl, ret>>
       ELSE \E r \in evaluateResults(tl.tctx, tl.now) : \E lag \in 0..MaxLag :
              Checked(check, r, IF r.err # "" THEN r.now + lag ELSE r.now)
  /\ UNCHANGED <<call, layout, ft, page, heap, opts, prof, nodes, idx, tw, loc, tweets, trail>>

LoadFailed == LaterCheck("loadFailed")

Protected == LaterCheck("protected")

\* fetchTimeline, lines 107-111: the select on tctx.Done() and the timer; when
\* both are ready at the same time either case is taken
Select ==
  /\ pc = "select"
  /\ Followed
  /\ \/ /\ Expired(tl.tctx, tl.now + hasTweetCheckDelay)
        /\ ret' = [NoReturn EXCEPT
                     !.done = TRUE, !.err = "failed loading tweets",
                     !.at = IF Expired(tl.tctx, tl.now) THEN tl.now ELSE tl.tctx.at]
        /\ tl' = [tl EXCEPT !.now = ret'.at]
        /\ pc' = "done"
     \/ /\ ~Expired(tl.tctx, tl.now + hasTweetCheckDelay - 1)
        /\ tl' = [tl EXCEPT !.now = tl.now + hasTweetCheckDelay]
        /\ pc' = "hasTweet"
        /\ UNCHANGED ret
  /\ UNCHANGED <<call, layout, ft, page, heap, opts, prof, nodes, idx, tw, loc, tweets, trail>>

NextWait == HasTweet \/ LoadFailed \/ Protected \/ Select

SpecWait == InitWait /\ [][NextWait]_vars

\* the loop is never held up: chromedp.Run returns when tctx is done at the
\* latest, and the select when the timer fires
SpecWaitFair == SpecWait /\ WF_vars(NextWait)

\* the errors of a check that could not be evaluated
EvalErrors == { evalError(c) : c \in {"hasTweet", "loadFailed", "protected"} }

\* the deadline error is returned exactly when the deadline was reached, and
\* the error of an evaluation only when tctx.Err() was nil
DeadlineFirst ==
  pc = "done" =>
    /\ ret.err \in EvalErrors => ~Expired(tl.tctx, ret.at)
    /\ ret.err = "failed loading tweets" <=> Expired(tl.tctx, ret.at)

\* C27 as stated: when the tweet timeout or the deadline of the context is
\* reached before a tweet appears the error returned is the deadline error,
\* never the error of an evaluation; otherwise the loop ends only with tweets
\* found, a failed load or a protected account; with a positive tweetTimeout
\* it always ends
C27_ThreeVerdicts ==
  /\ [](DeadlineFirst
        /\ (pc = "done" =>
              ret.err \in { foundError(c) : c \in {"hasTweet", "loadFailed", "protected"} }
                          \cup {"failed loading tweets"}))
  /\ (call.tweetTimeout > 0 => <>(pc = "done"))

\* C27: when the tweet timeout or the deadline of the context is reached
\* before a tweet appears the error returned is the deadline error, never
\* the error of an evaluation; otherwise the loop ends with tweets found, a
\* failed load, a protected account, or the error of a check that could not
\* be evaluated; with a positive tweetTimeout it always ends
C27_DeadlineOrVerdict ==
  /\ [](DeadlineFirst
        /\ (pc = "done" =>
              ret.err \in { foundError(c) : c \in {"hasTweet", "loadFailed", "protected"} }
                          \cup EvalErrors \cup {"failed loading tweets"}))
  /\ (call.tweetTimeout > 0 => <>(pc = "done"))

\* the check for a failed load could not be evaluated, the tweet timeout was
\* over when tctx.Err() was asked, and the deadline error has been returned
C27_Witness ==
  /\ pc = "done" /\ ret.err = "failed loading tweets"
  /\ call.tweetTimeout > 0 /\ call.ctx = Background
  /\ tl.last = [check |-> "loadFailed", err |-> "evaluate"]
  /\ Expired(tl.tctx, ret.at)

====
